---- MODULE Spec2Model ----
(***************************************************************************)
(* Verification model of the code-audit skill (Variant-Systems/skills):    *)
(* the finding deduplicator, the import-graph analyzer and the             *)
(* construction of its graph, the external tool runner, tool discovery and *)
(* selection, the parsers of tool output, the analyzers that run tools,    *)
(* the orchestrator, and finding construction with the report's order.     *)
(* Each component has its own specification (SpecDedup, SpecGraph,         *)
(* SpecHubs, SpecBuild, SpecRun, SpecDiscover, SpecSelect, SpecParse,      *)
(* SpecAnalyze, SpecMain, SpecReport) over its own variables; the          *)
(* variables of the other components stay at their idle values.            *)
(***************************************************************************)
EXTENDS Integers, Sequences, FiniteSets, TLC

VARIABLES
    \* ---- deduplicator (tools/dedup.mjs) ----
    toolFindings,    \* the caller's toolFindings array, as the callee leaves it
    regexFindings,   \* the caller's regexFindings array, as the callee leaves it
    givenTool,       \* the toolFindings the caller built (history)
    givenRegex,      \* the regexFindings the caller built (history)
    dedupResults,    \* the lists returned by the calls made so far
    \* ---- import-graph analyzer (analyzers/imports.mjs) ----
    codeFileCount,   \* codeFiles.length
    graph,           \* the Map file -> Set of imported files: [keys, adj]
    cycles,          \* what detectCycles(graph) returned
    graphFindings,   \* the findings array of graphAnalysis
    stats,           \* the stats object of graphAnalysis
    importsFindings, \* the findings analyzeImports returns when no tool is available
    gpc,             \* "idle" | "built" (graph built, lines 65-91) | "done"
    \* ---- tool runner (tools/runner.mjs: exec, runTool) and an analyzer's tool loop ----
    analyzer,        \* the category of the analyzer that runs the tools
    runQueue,        \* tools: the entries getToolsForCategory returned
    runIdx,          \* position of the for-of loop over tools
    proc,            \* the child process of the exec call in flight
    execPromise,     \* the promise of the exec call in flight
    toolRunFindings, \* toolFindings of the analyzer
    toolsMeta,       \* toolsMeta of the analyzer
    runReturns,      \* what the calls of runTool returned, in call order
    rpc,             \* "idle" | "loop" | "awaiting" | "threw" | "done"
    \* ---- tool discovery (tools/runner.mjs: discoverTools) ----
    probes,          \* the child processes of the detect commands, by registry position
    results,         \* what Promise.allSettled collects, by registry position
    completionOrder, \* the registry positions in the order their probes settled
    available,       \* the Map discoverTools returns, in iteration order
    dpc,             \* "idle" | "probing" | "collected"
    \* ---- tool selection (tools/runner.mjs: getToolsForCategory) ----
    availableArg,    \* available: the Map handed to getToolsForCategory, in iteration order
    categoryArg,     \* category
    packageManagerArg, \* packageManager, "" for null
    matching,        \* what getToolsForCategory returned
    spc,             \* "idle" | "called" | "returned"
    \* ---- the parsers of tool output ----
    parserIdArg,     \* the key of PARSERS of the parser called
    rawArg,          \* the raw output handed to the parser
    analyzerArg,     \* the analyzer argument of the parser
    toolIdArg,       \* the toolId argument of the parser
    parserFindings,          \* the array the parser returned
    ppc,             \* "idle", "called", "returned" or "threw"
    \* ---- the analyzers that run tools ----
    optsAvailable,   \* opts.availableTools: the Map discoverTools returned
    optsManager,     \* opts.ecosystem.packageManager; "" stands for null
    catIdx,          \* the position of the running analyzer in AnalyzerOrder
    catTools,        \* tools: what getToolsForCategory returned
    catToolIdx,      \* the position of the loop over tools
    catToolFindings, \* toolFindings of the analyzer
    catToolsMeta,    \* toolsMeta of the analyzer
    catRegexFindings, \* regexFindings: what the pattern analysis returned
    catResult,       \* what the analyzer returned
    apc,             \* "idle", "start", "tools", "pattern", "returned", "threw" or "finished"
    \* ---- the orchestrator ----
    fileCount,       \* files.length
    ecosystemManager, \* ecosystem.packageManager; "" stands for null
    availableTools,  \* the Map discoverTools returned
    analyzerIdx,     \* the position of main in ANALYZERS
    mainTools,       \* the tools the running analyzer still has to run
    allToolsMeta,    \* allToolsMeta: id and status of every run
    exitCode,        \* the exit code of the process, -1 while it runs
    mpc,             \* the phase main is in
    \* ---- finding construction and report ordering (utils/severity.mjs, report/generator.mjs) ----
    allFindings,     \* allFindings: the findings handed to generateReport
    severityArg,     \* the severity of the last call of finding()
    findingOutcome,  \* "returned" or "threw": how the last call of finding() ended
    sortedFindings,  \* sorted: what sortFindings returned
    groupedFindings, \* grouped: the Map groupByAnalyzer returned, in insertion order
    kpc,             \* "idle", "collecting" or "reported"
    \* ---- graph construction (analyzers/imports.mjs: graphAnalysis, extractImports, resolveImport) ----
    codeFiles,       \* codeFiles: the relative paths of the code files, in corpus order
    fileIdx,         \* the number of code files the loop of graphAnalysis has handled
    readResult,      \* what readLines returned for the file handled last
    importGraph,     \* graph: the Map file -> Set of resolved imports, in insertion order
    inDegree,        \* inDegree: the Map file -> count, in insertion order
    outDegree,       \* outDegree: the Map file -> count, in insertion order
    importCycles,    \* cycles: what detectCycles(graph) returned, as paths
    edgeTotal,      \* totalEdges, which becomes stats.totalImportEdges
    bpc              \* "idle", "reading" or "analysed"

dedupVars == <<toolFindings, regexFindings, givenTool, givenRegex, dedupResults>>
graphVars == <<codeFileCount, graph, cycles, graphFindings, stats, importsFindings, gpc>>

runVars ==
    <<analyzer, runQueue, runIdx, proc, execPromise, toolRunFindings, toolsMeta, runReturns, rpc>>

discVars == <<probes, results, completionOrder, available, dpc>>

selectVars == <<availableArg, categoryArg, packageManagerArg, matching, spc>>

parseVars == <<parserIdArg, rawArg, analyzerArg, toolIdArg, parserFindings, ppc>>

analyzeVars == <<optsAvailable, optsManager, catIdx, catTools, catToolIdx, catToolFindings, catToolsMeta, catRegexFindings, catResult, apc>>

mainVars == <<fileCount, ecosystemManager, availableTools, analyzerIdx, mainTools, allToolsMeta, exitCode, mpc>>

reportVars == <<allFindings, severityArg, findingOutcome, sortedFindings, groupedFindings, kpc>>

buildVars == <<codeFiles, fileIdx, readResult, importGraph, inDegree, outDegree, importCycles, edgeTotal, bpc>>

vars == <<dedupVars, graphVars, runVars, discVars, selectVars, parseVars, analyzeVars, mainVars, reportVars, buildVars>>

(***************************************************************************)
(* Generic helpers                                                         *)
(***************************************************************************)
SeqsUpTo(S, n) == UNION {[1..k -> S] : k \in 0..n}

Abs(x) == IF x < 0 THEN -x ELSE x

\* s is a subsequence of t (order kept, elements possibly skipped)
RECURSIVE IsSubsequence(_, _)
IsSubsequence(s, t) ==
    IF s = <<>> THEN TRUE
    ELSE IF t = <<>> THEN FALSE
    ELSE IF Head(s) = Head(t) THEN IsSubsequence(Tail(s), Tail(t))
    ELSE IsSubsequence(s, Tail(t))

(***************************************************************************)
(* Findings (utils/severity.mjs, finding())                                *)
(***************************************************************************)
\* file = null and line = null are the defaults of finding(); both are falsy,
\* as are '' and 0, so one falsy value per field is modelled.
NoFile == ""
NoLine == 0

\* Bounds of the deduplicator's inputs
MaxLine == 4
MaxFindings == 3

FileNames == {"a.js", "b.js"}

\* the components that a specification does not run stay idle
DedupIdle ==
    /\ toolFindings = <<>> /\ regexFindings = <<>>
    /\ givenTool = <<>> /\ givenRegex = <<>> /\ dedupResults = <<>>

GraphIdle ==
    /\ codeFileCount = 0 /\ graph = [keys |-> <<>>, adj |-> <<>>]
    /\ cycles = <<>> /\ graphFindings = <<>> /\ stats = <<>>
    /\ importsFindings = <<>> /\ gpc = "idle"

NoProc == [state |-> "none"]

RunIdle ==
    /\ analyzer = "" /\ runQueue = <<>> /\ runIdx = 0 /\ proc = NoProc
    /\ execPromise = [state |-> "none"] /\ toolRunFindings = <<>> /\ toolsMeta = <<>>
    /\ runReturns = <<>> /\ rpc = "idle"

DiscIdle ==
    /\ probes = <<>> /\ results = <<>> /\ completionOrder = <<>> /\ available = <<>>
    /\ dpc = "idle"

SelectIdle ==
    /\ availableArg = <<>> /\ categoryArg = "" /\ packageManagerArg = "" /\ matching = <<>>
    /\ spc = "idle"

ParseIdle ==
    /\ parserIdArg = "" /\ rawArg = [shape |-> "", word |-> ""] /\ analyzerArg = ""
    /\ toolIdArg = "" /\ parserFindings = <<>> /\ ppc = "idle"

AnalyzeIdle ==
    /\ optsAvailable = <<>> /\ optsManager = "" /\ catIdx = 0 /\ catTools = <<>>
    /\ catToolIdx = 0 /\ catToolFindings = <<>> /\ catToolsMeta = <<>>
    /\ catRegexFindings = <<>> /\ catResult = <<>> /\ apc = "idle"

MainIdle ==
    /\ fileCount = 0 /\ ecosystemManager = "" /\ availableTools = <<>> /\ analyzerIdx = 0
    /\ mainTools = <<>> /\ allToolsMeta = <<>> /\ exitCode = -1 /\ mpc = "idle"

ReportIdle ==
    /\ allFindings = <<>> /\ severityArg = "" /\ findingOutcome = "" /\ sortedFindings = <<>>
    /\ groupedFindings = <<>> /\ kpc = "idle"

BuildIdle ==
    /\ codeFiles = <<>> /\ fileIdx = 0 /\ readResult = [ok |-> FALSE, lines |-> <<>>]
    /\ importGraph = <<>> /\ inDegree = <<>> /\ outDegree = <<>> /\ importCycles = <<>>
    /\ edgeTotal = 0 /\ bpc = "idle"

\* every component but the one named is idle
IdleExcept(component) ==
    /\ IF component = "dedup" THEN TRUE ELSE DedupIdle
    /\ IF component = "graph" THEN TRUE ELSE GraphIdle
    /\ IF component = "run" THEN TRUE ELSE RunIdle
    /\ IF component = "discover" THEN TRUE ELSE DiscIdle
    /\ IF component = "select" THEN TRUE ELSE SelectIdle
    /\ IF component = "parse" THEN TRUE ELSE ParseIdle
    /\ IF component = "analyze" THEN TRUE ELSE AnalyzeIdle
    /\ IF component = "main" THEN TRUE ELSE MainIdle
    /\ IF component = "report" THEN TRUE ELSE ReportIdle
    /\ IF component = "build" THEN TRUE ELSE BuildIdle

\* a step of the component named leaves the state of the others alone
Frame(component) ==
    /\ IF component = "dedup" THEN TRUE ELSE UNCHANGED dedupVars
    /\ IF component = "graph" THEN TRUE ELSE UNCHANGED graphVars
    /\ IF component = "run" THEN TRUE ELSE UNCHANGED runVars
    /\ IF component = "discover" THEN TRUE ELSE UNCHANGED discVars
    /\ IF component = "select" THEN TRUE ELSE UNCHANGED selectVars
    /\ IF component = "parse" THEN TRUE ELSE UNCHANGED parseVars
    /\ IF component = "analyze" THEN TRUE ELSE UNCHANGED analyzeVars
    /\ IF component = "main" THEN TRUE ELSE UNCHANGED mainVars
    /\ IF component = "report" THEN TRUE ELSE UNCHANGED reportVars
    /\ IF component = "build" THEN TRUE ELSE UNCHANGED buildVars

\* a finding reduced to the fields the deduplicator reads, plus its source
Locations == [file : FileNames \cup {NoFile}, line : {NoLine} \cup (1..MaxLine)]

FindingAt(loc, src) == [file |-> loc.file, line |-> loc.line, source |-> src]

(***************************************************************************)
(* deduplicateFindings (tools/dedup.mjs)                                   *)
(***************************************************************************)
\* `${f.file}:${f.line}`
coverageKey(file, line) == file \o ":" \o ToString(line)

\* mutant: only the lines at and after the tool's line are marked
nearbyLinesForwardOnly(line) == {line + offset : offset \in 0..2}

\* for (offset = -2; offset <= 2; offset++) if (nearbyLine > 0) ...
nearbyLines(line) == {n \in {line + offset : offset \in (-2)..2} : n > 0}

\* the Set built by the first loop
toolCoverage(T) ==
    UNION { IF T[i].file # NoFile /\ T[i].line # NoLine
            THEN {coverageKey(T[i].file, T[i].line)}
                 \cup {coverageKey(T[i].file, n) : n \in nearbyLines(T[i].line)}
            ELSE {}
          : i \in DOMAIN T }

\* the second loop: continue (drop) iff f has file and line and its key is covered
keptRegex(T, P) ==
    LET cov == toolCoverage(T)
        keep(f) == ~(f.file # NoFile /\ f.line # NoLine
                     /\ coverageKey(f.file, f.line) \in cov)
    IN SelectSeq(P, keep)

\* mutant: the kept pattern findings are put before the tool findings
deduplicateFindingsPatternFirst(T, P) == keptRegex(T, P) \o T

\* return [...toolFindings, ...keptRegex]
deduplicateFindings(T, P) == T \o keptRegex(T, P)

\* mutant: the merge is done in place (toolFindings.push(...keptRegex))
toolFindingsAfterInPlace(T, P) == T \o keptRegex(T, P)

\* the arrays passed in, after the call: the function only reads them
toolFindingsAfter(T, P) == T
regexFindingsAfter(T, P) == P

\* the caller hands over k tool findings and n - k pattern findings, n <= MaxFindings
DedupInit ==
    /\ \E all \in SeqsUpTo(Locations, MaxFindings) : \E k \in 0..Len(all) :
          LET T == [i \in 1..k |-> FindingAt(all[i], "tool")]
              P == [i \in 1..(Len(all) - k) |-> FindingAt(all[k + i], "regex")]
          IN /\ toolFindings = T /\ givenTool = T
             /\ regexFindings = P /\ givenRegex = P
    /\ dedupResults = <<>>
    /\ IdleExcept("dedup")

\* one call of deduplicateFindings(toolFindings, regexFindings); the caller may
\* call it a second time on the same two arrays
DedupCall ==
    /\ Len(dedupResults) < 2
    /\ dedupResults' = Append(dedupResults, deduplicateFindings(toolFindings, regexFindings))
    /\ toolFindings' = toolFindingsAfter(toolFindings, regexFindings)
    /\ regexFindings' = regexFindingsAfter(toolFindings, regexFindings)
    /\ UNCHANGED <<givenTool, givenRegex>>
    /\ Frame("dedup")

DedupNext == DedupCall

SpecDedup == DedupInit /\ [][DedupNext]_vars

(***************************************************************************)
(* Import graph (analyzers/imports.mjs)                                    *)
(*                                                                         *)
(* Files are numbered in the order of their relative paths, NodeName[i];   *)
(* Array.prototype.sort() on the paths is then the sort of the numbers.    *)
(* A Map or Set is a sequence without repetition: its insertion order is   *)
(* its iteration order.                                                    *)
(***************************************************************************)
NodeName == <<"a.js", "b.js", "c.js", "d.js", "e.js", "f.js", "g.js", "h.js", "i.js">>

\* Bounds of the import graphs
MaxFiles == 3
MaxEdges == 3
RingFiles == 6

Range(s) == {s[i] : i \in DOMAIN s}

IsInjective(s) == \A i, j \in DOMAIN s : s[i] = s[j] => i = j

\* the possible contents of a Set over S with at most n members, in insertion order
OrderedSets(S, n) == {s \in SeqsUpTo(S, n) : IsInjective(s)}

Permutations1(n) == {s \in [1..n -> 1..n] : IsInjective(s)}

SeqSum(s) == LET RECURSIVE sum(_, _)
                 sum(lo, hi) == IF lo > hi THEN 0
                                ELSE IF lo = hi THEN s[lo]
                                ELSE sum(lo, (lo + hi) \div 2) + sum((lo + hi) \div 2 + 1, hi)
             IN sum(1, Len(s))

\* the adjacency Sets of k files over the files 1..n with at most b edges in all
RECURSIVE Adjacencies(_, _, _)
Adjacencies(k, n, b) ==
    IF k = 0 THEN {<<>>}
    ELSE UNION { {Append(rest, a) : rest \in Adjacencies(k - 1, n, b - Len(a))}
                 : a \in OrderedSets(1..n, b) }

\* a corpus of MaxFiles files, read in any order, with at most MaxEdges imports
SparseGraphs ==
    {[keys |-> ks, adj |-> a] :
        ks \in Permutations1(MaxFiles), a \in Adjacencies(MaxFiles, MaxFiles, MaxEdges)}

\* a corpus of RingFiles files, each importing at most itself and the next file
Successor(i) == IF i = RingFiles THEN 1 ELSE i + 1

\* the possible import Sets of file i: any of itself and its successor, in any order
RingAdjacency(i) ==
    <<(<<>>), (<<i>>), (<<Successor(i)>>), (<<i, Successor(i)>>), (<<Successor(i), i>>)>>

RingGraphs ==
    {[keys |-> [i \in 1..RingFiles |-> i],
      adj |-> [i \in 1..RingFiles |-> RingAdjacency(i)[c[i]]]] :
        c \in [1..RingFiles -> DOMAIN RingAdjacency(1)]}

\* graph.get(node) || new Set()
graphGet(g, node) == IF node \in Range(g.keys) THEN g.adj[node] ELSE <<>>

\* Array.prototype.indexOf, 1-based; 0 stands for -1
indexOf(s, x) == IF x \in Range(s) THEN CHOOSE i \in DOMAIN s : s[i] = x /\ \A j \in 1..(i - 1) : s[j] # x
                 ELSE 0

\* mutant: dfs() forgets to record the node as visited
visitedAddForgotten(visited, node) == visited

\* visited.add(node)
visitedAdd(visited, node) == visited \cup {node}

\* mutant: dfs() walks into nodes it has visited before
alreadyVisitedIgnored(visited, node) == FALSE

\* if (visited.has(node)) return;
alreadyVisited(visited, node) == node \in visited

\* the closure state of detectCycles
DfsStart == [visited |-> {}, inStack |-> {}, cycles |-> <<>>, stackPath |-> <<>>]

\* mutant: a node met again is never recognised as being on the stack
inStackHasNever(inStack, node) == FALSE

\* if (inStack.has(node))
inStackHas(inStack, node) == node \in inStack

\* mutant: the cycle is the whole stack, not the slice from the node met again
closedCycleWholeStack(stackPath, cycleStart, node) == Append(stackPath, node)

\* const cycle = stackPath.slice(cycleStart); cycle.push(node)
closedCycle(stackPath, cycleStart, node) ==
    Append(SubSeq(stackPath, cycleStart, Len(stackPath)), node)

RECURSIVE dfs(_, _, _), dfsNeighbors(_, _, _)
dfs(g, node, st) ==
    IF inStackHas(st.inStack, node)
    THEN LET cycleStart == indexOf(st.stackPath, node)
         IN IF cycleStart # 0
            THEN [st EXCEPT !.cycles = Append(@, closedCycle(st.stackPath, cycleStart, node))]
            ELSE st
    ELSE IF alreadyVisited(st.visited, node) THEN st
    ELSE LET entered == [st EXCEPT !.visited = visitedAdd(@, node),
                                   !.inStack = @ \cup {node},
                                   !.stackPath = Append(@, node)]
             after == dfsNeighbors(g, graphGet(g, node), entered)
         IN [after EXCEPT !.stackPath = SubSeq(@, 1, Len(@) - 1),
                          !.inStack = @ \ {node}]

\* for (const neighbor of neighbors) dfs(neighbor)
dfsNeighbors(g, neighbors, st) ==
    IF neighbors = <<>> THEN st
    ELSE dfsNeighbors(g, Tail(neighbors), dfs(g, Head(neighbors), st))

\* for (const node of graph.keys()) if (!visited.has(node)) dfs(node)
\* (the loop over keys[1..n] is the loop over its first half followed by the
\* loop over its second half; the state the first half leaves is computed
\* before the second half starts, which keeps the evaluation shallow)
Computed(st) == st = st

RECURSIVE dfsRoots(_, _, _)
dfsRoots(g, keys, st) ==
    IF keys = <<>> THEN st
    ELSE IF Len(keys) = 1
    THEN IF keys[1] \notin st.visited THEN dfs(g, keys[1], st) ELSE st
    ELSE LET half == Len(keys) \div 2
             first == dfsRoots(g, SubSeq(keys, 1, half), st)
         IN IF Computed(first) THEN dfsRoots(g, SubSeq(keys, half + 1, Len(keys)), first)
            ELSE first

\* [...cycle].sort()
RECURSIVE sorted(_)
sorted(s) ==
    IF s = <<>> THEN <<>>
    ELSE LET m == CHOOSE x \in Range(s) : \A y \in Range(s) : x <= y
         IN SelectSeq(s, LAMBDA x : x = m) \o sorted(SelectSeq(s, LAMBDA x : x # m))

\* names.join(sep)
RECURSIVE join(_, _)
join(s, sep) ==
    IF s = <<>> THEN ""
    ELSE IF Len(s) = 1 THEN NodeName[s[1]]
    ELSE NodeName[s[1]] \o sep \o join(Tail(s), sep)

\* const key = [...cycle].sort().join('|')
cycleKey(cycle) == join(sorted(cycle), "|")

\* cycles.filter(cycle => { if (seen.has(key)) return false; seen.add(key); return true })
RECURSIVE filterSeen(_, _)
filterSeen(cs, seen) ==
    IF cs = <<>> THEN <<>>
    ELSE IF cycleKey(Head(cs)) \in seen THEN filterSeen(Tail(cs), seen)
    ELSE <<Head(cs)>> \o filterSeen(Tail(cs), seen \cup {cycleKey(Head(cs))})

detectCycles(g) == filterSeen(dfsRoots(g, g.keys, DfsStart).cycles, {})

(***************************************************************************)
(* graphAnalysis (analyzers/imports.mjs), after the graph is built         *)
(***************************************************************************)
ANALYZER_IMPORTS == "imports"
SEVERITY_HIGH == "high"
SEVERITY_MEDIUM == "medium"
SEVERITY_LOW == "low"

\* Math.max(10, codeFiles.length * 0.15): the fixed part, and the share in percent
HubMinimum == 10
HubPercent == 15
\* hubs.slice(0, 5)
HubFindingsMax == 5
\* if (cycles.length > 5)
ManyCycles == 5

\* first occurrences of s, in order: the insertion order of a Map or Set
RECURSIVE firstOccurrences(_, _)
firstOccurrences(s, seen) ==
    IF s = <<>> THEN <<>>
    ELSE IF Head(s) \in seen THEN firstOccurrences(Tail(s), seen)
    ELSE <<Head(s)>> \o firstOccurrences(Tail(s), seen \cup {Head(s)})

RECURSIVE concatAdj(_, _)
concatAdj(g, keys) ==
    IF keys = <<>> THEN <<>>
    ELSE IF Len(keys) = 1 THEN g.adj[keys[1]]
    ELSE LET half == Len(keys) \div 2
         IN concatAdj(g, SubSeq(keys, 1, half)) \o concatAdj(g, SubSeq(keys, half + 1, Len(keys)))

\* the keys of the inDegree Map, in insertion order
inDegreeKeys(g) == firstOccurrences(concatAdj(g, g.keys), {})

\* inDegree.get(file): one increment per file whose resolvedImports Set holds it
inDegreeOf(g, file) ==
    Cardinality({i \in DOMAIN g.keys : file \in Range(g.adj[g.keys[i]])})

\* outDegree.set(file.relativePath, resolvedImports.size)
outDegreeOf(g, file) == Len(g.adj[file])

\* the finding of one cycle (lines 96-106)
cycleFinding(cycle) ==
    [analyzer |-> ANALYZER_IMPORTS, severity |-> SEVERITY_MEDIUM,
     title |-> "Circular import detected (" \o ToString(Len(cycle)) \o " files)",
     chain |-> join(cycle, " -> "),
     file |-> NodeName[cycle[1]], line |-> NoLine, source |-> "regex"]

\* mutant: a file needs more imports than the threshold
isHubAboveThreshold(count, nFiles) == count > HubMinimum /\ count * 100 > nFiles * HubPercent

\* count >= Math.max(10, codeFiles.length * 0.15)
isHub(count, nFiles) == count >= HubMinimum /\ count * 100 >= nFiles * HubPercent

\* mutant: the hubs stay in the order of the inDegree map
sortHubsNone(hs) == hs

\* hubs.sort((a, b) => b.importedBy - a.importedBy): stable, descending
RECURSIVE sortHubs(_)
sortHubs(hs) ==
    IF hs = <<>> THEN <<>>
    ELSE LET m == CHOOSE x \in {hs[i].importedBy : i \in DOMAIN hs} :
                     \A i \in DOMAIN hs : hs[i].importedBy <= x
         IN SelectSeq(hs, LAMBDA h : h.importedBy = m)
              \o sortHubs(SelectSeq(hs, LAMBDA h : h.importedBy # m))

hubsOf(g, nFiles) ==
    LET ks == inDegreeKeys(g)
        all == [i \in DOMAIN ks |-> [file |-> ks[i], importedBy |-> inDegreeOf(g, ks[i])]]
    IN sortHubs(SelectSeq(all, LAMBDA h : isHub(h.importedBy, nFiles)))

hubFinding(hub) ==
    [analyzer |-> ANALYZER_IMPORTS, severity |-> SEVERITY_LOW,
     title |-> "Hub file: " \o NodeName[hub.file] \o " (imported by "
                 \o ToString(hub.importedBy) \o " files)",
     chain |-> "",
     file |-> NodeName[hub.file], line |-> NoLine, source |-> "regex"]

\* mutant: the summary finding is already added at 5 cycles
tooManyCyclesFromFive(n) == n >= ManyCycles

\* if (cycles.length > 5)
tooManyCycles(n) == n > ManyCycles

summaryFinding(n) ==
    [analyzer |-> ANALYZER_IMPORTS, severity |-> SEVERITY_HIGH,
     title |-> ToString(n) \o " circular dependency chains detected",
     chain |-> "",
     file |-> NoFile, line |-> NoLine, source |-> "regex"]

\* the findings array: cycle findings, then hub findings, then the summary
findingsOf(g, cs, nFiles) ==
    LET hubs == hubsOf(g, nFiles)
        top == SubSeq(hubs, 1, IF Len(hubs) < HubFindingsMax THEN Len(hubs) ELSE HubFindingsMax)
    IN [i \in DOMAIN cs |-> cycleFinding(cs[i])]
         \o [i \in DOMAIN top |-> hubFinding(top[i])]
         \o (IF tooManyCycles(Len(cs)) THEN <<summaryFinding(Len(cs))>> ELSE <<>>)

totalEdgesOf(g) == SeqSum([i \in DOMAIN g.keys |-> outDegreeOf(g, g.keys[i])])

\* (totalEdges / codeFiles.length).toFixed(1), in tenths
avgCouplingTenths(totalEdges, nFiles) ==
    IF nFiles > 0 THEN (20 * totalEdges + nFiles) \div (2 * nFiles) ELSE 0

statsOf(g, cs, nFiles) ==
    [filesAnalyzed |-> nFiles,
     totalImportEdges |-> totalEdgesOf(g),
     avgImportsPerFileTenths |-> avgCouplingTenths(totalEdgesOf(g), nFiles),
     circularDependencies |-> Len(cs),
     hubFiles |-> hubsOf(g, nFiles)]

\* the graph as the loop of lines 70-91 leaves it, every code file readable
GraphInit ==
    /\ IdleExcept("graph")
    /\ graph \in SparseGraphs \cup RingGraphs
    /\ codeFileCount = Len(graph.keys)
    /\ cycles = <<>> /\ graphFindings = <<>> /\ stats = <<>>
    /\ importsFindings = <<>>
    /\ gpc = "built"

\* lines 93-154 of graphAnalysis, then analyzeImports' deduplication with no
\* tool findings (lines 51-56)
GraphAnalysis ==
    /\ gpc = "built"
    /\ cycles' = detectCycles(graph)
    /\ graphFindings' = findingsOf(graph, cycles', codeFileCount)
    /\ stats' = statsOf(graph, cycles', codeFileCount)
    /\ importsFindings' = deduplicateFindings(<<>>, graphFindings')
    /\ gpc' = "done"
    /\ UNCHANGED <<codeFileCount, graph>>
    /\ Frame("graph")

GraphNext == GraphAnalysis

SpecGraph == GraphInit /\ [][GraphNext]_vars

(***************************************************************************)
(* Tool registry (tools/registry.mjs) and parser table (tools/parsers.mjs) *)
(***************************************************************************)
\* a descriptor reduced to the fields the runner reads; ecosystems = {} stands
\* for a descriptor without the ecosystems property, overrides are the keys of
\* run.categoryOverrides
Tool(id, categories, parserId, timeout, ecosystems, overrides) ==
    [id |-> id, categories |-> categories, parserId |-> parserId,
     timeout |-> timeout, ecosystems |-> ecosystems, overrides |-> overrides]

TOOL_REGISTRY == <<
    Tool("semgrep", <<"secrets", "security">>, "semgrep-json", 120000, {}, {"secrets", "security"}),
    Tool("eslint", <<"security">>, "eslint-json", 60000, {}, {}),
    Tool("bandit", <<"security">>, "bandit-json", 60000, {"python"}, {}),
    Tool("trufflehog", <<"secrets">>, "trufflehog-json", 120000, {}, {}),
    Tool("gitleaks", <<"secrets">>, "gitleaks-json", 60000, {}, {}),
    Tool("npm-audit", <<"dependencies">>, "npm-audit-json", 30000, {"npm"}, {}),
    Tool("pnpm-audit", <<"dependencies">>, "pnpm-audit-json", 30000, {"pnpm"}, {}),
    Tool("yarn-audit", <<"dependencies">>, "yarn-audit-json", 30000, {"yarn"}, {}),
    Tool("trivy", <<"dependencies">>, "trivy-json", 120000, {}, {}),
    Tool("osv-scanner", <<"dependencies">>, "osv-scanner-json", 60000, {}, {}),
    Tool("mix-audit", <<"dependencies">>, "mix-audit-text", 30000, {"elixir"}, {}),
    Tool("cargo-audit", <<"dependencies">>, "cargo-audit-json", 30000, {"rust"}, {}),
    Tool("pip-audit", <<"dependencies">>, "pip-audit-json", 30000, {"python"}, {}),
    Tool("bundler-audit", <<"dependencies">>, "bundler-audit-text", 30000, {"ruby"}, {}),
    Tool("madge", <<"imports">>, "madge-json", 60000, {"npm", "pnpm", "yarn"}, {}) >>

\* the keys of PARSERS
PARSERS ==
    {"sarif", "semgrep-json", "eslint-json", "trivy-json", "bandit-json",
     "trufflehog-json", "gitleaks-json", "madge-json", "npm-audit-json",
     "pnpm-audit-json", "yarn-audit-json", "osv-scanner-json", "mix-audit-text",
     "cargo-audit-json", "pip-audit-json", "bundler-audit-text"}

\* the categories of the analyzers that call runTool
ToolCategories == {"secrets", "security", "dependencies", "imports"}

\* runTool is exported and takes any descriptor: one for the imports category
\* whose parserId is no key of PARSERS and that sets no timeout
UnregisteredTool == Tool("custom-scanner", <<"imports">>, "custom-format", 0, {}, {})

(***************************************************************************)
(* exec (tools/runner.mjs): execFile with a timeout, resolved in the        *)
(* callback whatever the error                                              *)
(***************************************************************************)
NoError == [present |-> FALSE, code |-> 0, killed |-> FALSE]

\* the error execFile hands to the callback when the child exits with code c
ExitError(c) == IF c = 0 THEN NoError ELSE [present |-> TRUE, code |-> c, killed |-> FALSE]

\* the error execFile hands to the callback after its timeout killed the child
\* (code is null there, and null ?? 0 is 0)
KilledError == [present |-> TRUE, code |-> 0, killed |-> TRUE]

\* mutant: execFile is called without the timeout option
execTimeoutNone(optsTimeout) == 0

\* timeout: opts.timeout || 30_000
execTimeout(optsTimeout) == IF optsTimeout # 0 THEN optsTimeout ELSE 30000

\* execFile arms its kill timer iff options.timeout > 0
timerArmed(timeout) == timeout > 0

\* the execFile callback: resolve({ stdout, stderr, exitCode, timedOut })
execSettle(error, stdout, stderr) ==
    [state |-> "resolved",
     value |-> [stdout |-> stdout, stderr |-> stderr,
                exitCode |-> IF error.present THEN error.code ELSE 0,
                timedOut |-> IF error.present THEN error.killed ELSE FALSE]]

\* what a child process can write before it ends: nothing, white space only,
\* a JSON report of the tool's own format with one result, and two advisories
\* in the text format of mix deps.audit
JsonReport == "{report}"
MixReport == "Package: plug\nTitle: t\nSeverity: high"
MixReportInherited == "Package: plug\nTitle: t\nSeverity: constructor"
Stdouts == {"", " \n", JsonReport, MixReport, MixReportInherited}
Stderrs == {"", "warning: x"}
ExitCodes == {0, 1}

\* String.prototype.trim on the outputs above
trim(str) == IF str = " \n" THEN "" ELSE str

\* a child process as exec started it; hangs: it never ends on its own
Process(hangs, stdout, stderr, code, armed) ==
    [state |-> "running", hangs |-> hangs, stdout |-> stdout, stderr |-> stderr,
     code |-> code, timerArmed |-> armed]

(***************************************************************************)
(* runTool (tools/runner.mjs) and the tool loop of an analyzer             *)
(***************************************************************************)
\* Bound of the number of tools an analyzer runs
MaxRunTools == 2

\* tool.timeout || 60_000
runTimeout(tool) == IF tool.timeout # 0 THEN tool.timeout ELSE 60000

\* the keys of SEVERITY_ORDER
SeverityNames == {"critical", "high", "medium", "low", "info"}

\* finding() throws on a severity that is no own key of SEVERITY_ORDER
findingThrows(severity) == severity \notin SeverityNames

\* severityMap[word] of parseMixAuditText: severityMap is an object literal, so
\* a name it inherits from Object.prototype yields a function or an object;
\* "" stands for undefined
severityMapGet(word) ==
    CASE word = "critical" -> "critical"
      [] word = "high" -> SEVERITY_HIGH
      [] word \in {"moderate", "medium"} -> SEVERITY_MEDIUM
      [] word = "low" -> SEVERITY_LOW
      [] word \in {"constructor", "__proto__"} -> "[inherited]"
      [] OTHER -> ""

\* severityMap[...] || SEVERITY.MEDIUM
mixSeverity(word) == IF severityMapGet(word) # "" THEN severityMapGet(word) ELSE SEVERITY_MEDIUM

\* the blocks of the output in which Package: and Title: match, each with the
\* lower-cased word after Severity:
mixBlocks(output) ==
    IF output = MixReport THEN <<"high">>
    ELSE IF output = MixReportInherited THEN <<"constructor">>
    ELSE <<>>

\* parseMixAuditText: no try around the loop, what finding() throws leaves it
parseMixAuditText(output, category) ==
    LET blocks == mixBlocks(output)
    IN IF \E i \in DOMAIN blocks : findingThrows(mixSeverity(blocks[i]))
       THEN [threw |-> TRUE, findings |-> <<>>]
       ELSE [threw |-> FALSE,
             findings |-> [i \in DOMAIN blocks |->
                 [analyzer |-> category, severity |-> mixSeverity(blocks[i]), file |-> "mix.exs",
                  line |-> NoLine, source |-> "tool", toolId |-> "mix-audit"]]]

\* parseBundlerAuditText: none of the outputs above has a Name: line
parseBundlerAuditText(output, category) == [threw |-> FALSE, findings |-> <<>>]

\* the JSON parsers: the whole body is in try, catch returns []; JSON.parse
\* fails on everything above but the report, whose one result they map
parseJson(output, category, toolId) ==
    [threw |-> FALSE,
     findings |-> IF output = JsonReport
                  THEN <<[analyzer |-> category, severity |-> SEVERITY_HIGH, file |-> "a.js",
                          line |-> 1, source |-> "tool", toolId |-> toolId]>>
                  ELSE <<>>]

\* PARSERS[tool.parserId](output, analyzer, tool.id)
parserCall(parserId, output, category, toolId) ==
    IF parserId = "mix-audit-text" THEN parseMixAuditText(output, category)
    ELSE IF parserId = "bundler-audit-text" THEN parseBundlerAuditText(output, category)
    ELSE parseJson(output, category, toolId)

\* the status runTool reports for the result of exec (lines 276-327)
runToolStatus(tool, result) ==
    IF result.timedOut THEN "timeout"
    ELSE IF trim(result.stdout) = "" THEN (IF result.stdout # "" THEN "empty" ELSE "no-output")
    ELSE IF tool.parserId \notin PARSERS THEN "no-parser"
    ELSE "success"

\* runTool after await exec: { findings, meta }, or the exception of the parser
runToolReturn(tool, category, result) ==
    LET status == runToolStatus(tool, result)
        parsed == IF status = "success"
                  THEN parserCall(tool.parserId, result.stdout, category, tool.id)
                  ELSE [threw |-> FALSE, findings |-> <<>>]
    IN [threw |-> parsed.threw,
        findings |-> parsed.findings,
        meta |-> [toolId |-> tool.id, status |-> status,
                  findingCount |-> IF status = "success" THEN Len(parsed.findings) ELSE -1]]

\* the tools of a category, in registry order, and the unregistered descriptor
ToolsServing(category) ==
    SelectSeq(TOOL_REGISTRY \o <<UnregisteredTool>>,
              LAMBDA t : category \in Range(t.categories))

\* the subsequences of s with at most n members
SubSeqsUpTo(s, n) ==
    {[i \in 1..Len(idx) |-> s[idx[i]]] :
        idx \in {x \in SeqsUpTo(DOMAIN s, n) : \A i \in 1..(Len(x) - 1) : x[i] < x[i + 1]}}

RunInit ==
    /\ IdleExcept("run")
    /\ analyzer \in ToolCategories
    /\ runQueue \in SubSeqsUpTo(ToolsServing(analyzer), MaxRunTools)
    /\ runIdx = 1
    /\ proc = NoProc
    /\ execPromise = [state |-> "none"]
    /\ toolRunFindings = <<>> /\ toolsMeta = <<>> /\ runReturns = <<>>
    /\ rpc = "loop"

\* runTool is called for the next tool: exec starts the child with the tool's
\* timeout (lines 261-272); what the child will do is the environment's choice
StartTool ==
    /\ rpc = "loop" /\ runIdx <= Len(runQueue)
    /\ \E hangs \in BOOLEAN, out \in Stdouts, err \in Stderrs, code \in ExitCodes :
          /\ hangs => code = 0
          /\ proc' = Process(hangs, out, err, code,
                             timerArmed(execTimeout(runTimeout(runQueue[runIdx]))))
    /\ execPromise' = [state |-> "pending"]
    /\ rpc' = "awaiting"
    /\ UNCHANGED <<analyzer, runQueue, runIdx, toolRunFindings, toolsMeta, runReturns>>
    /\ Frame("run")

\* the child ends on its own before the timeout: execFile calls back
ProcessExits ==
    /\ proc.state = "running" /\ ~proc.hangs
    /\ proc' = [proc EXCEPT !.state = "exited"]
    /\ execPromise' = execSettle(ExitError(proc.code), proc.stdout, proc.stderr)
    /\ UNCHANGED <<analyzer, runQueue, runIdx, toolRunFindings, toolsMeta, runReturns, rpc>>
    /\ Frame("run")

\* the timeout elapses first: execFile kills the child (SIGTERM ends it) and
\* calls back with what the child wrote so far
TimeoutFires ==
    /\ proc.state = "running" /\ proc.timerArmed
    /\ proc' = [proc EXCEPT !.state = "killed"]
    /\ execPromise' = execSettle(KilledError, proc.stdout, proc.stderr)
    /\ UNCHANGED <<analyzer, runQueue, runIdx, toolRunFindings, toolsMeta, runReturns, rpc>>
    /\ Frame("run")

\* runTool resumes after await exec and returns; the analyzer pushes the
\* findings and the meta and goes on with the next tool (lines 274-331 of the
\* runner, 41-47 of the analyzer)
ResumeRunTool ==
    /\ rpc = "awaiting" /\ execPromise.state = "resolved"
    /\ LET ret == runToolReturn(runQueue[runIdx], analyzer, execPromise.value)
       IN /\ ~ret.threw
          /\ runReturns' = Append(runReturns, [findings |-> ret.findings, meta |-> ret.meta])
          /\ toolRunFindings' = toolRunFindings \o ret.findings
          /\ toolsMeta' = Append(toolsMeta, ret.meta)
    /\ runIdx' = runIdx + 1
    /\ proc' = NoProc
    /\ execPromise' = [state |-> "none"]
    /\ rpc' = "loop"
    /\ UNCHANGED <<analyzer, runQueue>>
    /\ Frame("run")

\* runTool resumes after await exec and the parser throws: nothing between the
\* parser and main().catch handles it, the audit ends there
RunToolThrows ==
    /\ rpc = "awaiting" /\ execPromise.state = "resolved"
    /\ runToolReturn(runQueue[runIdx], analyzer, execPromise.value).threw
    /\ rpc' = "threw"
    /\ UNCHANGED <<analyzer, runQueue, runIdx, proc, execPromise, toolRunFindings, toolsMeta,
                   runReturns>>
    /\ Frame("run")

\* the loop over tools is exhausted: the analyzer goes on to its pattern phase
ToolPhaseDone ==
    /\ rpc = "loop" /\ runIdx > Len(runQueue)
    /\ rpc' = "done"
    /\ UNCHANGED <<analyzer, runQueue, runIdx, proc, execPromise, toolRunFindings, toolsMeta,
                   runReturns>>
    /\ Frame("run")

RunNext ==
    \/ StartTool \/ ProcessExits \/ TimeoutFires
    \/ ResumeRunTool \/ RunToolThrows \/ ToolPhaseDone

SpecRun == RunInit /\ [][RunNext]_vars

\* the event loop runs every callback that is ready, and a timer that is armed
\* fires unless the child ended first
RunFairness ==
    /\ WF_vars(StartTool) /\ WF_vars(TimeoutFires) /\ WF_vars(ResumeRunTool)
    /\ WF_vars(RunToolThrows) /\ WF_vars(ToolPhaseDone)

SpecRunFair == SpecRun /\ RunFairness

(***************************************************************************)
(* discoverTools (tools/runner.mjs)                                        *)
(***************************************************************************)
\* Bound of the number of registry entries probed, from the first on
MaxProbes == 2

\* { timeout: 10_000 } of the detect call
DetectTimeout == 10000

\* what a detect command can write: nothing, white space only, a version line
VersionLine == "v1.20.3 py3.9"
DetectStdouts == {"", " \n", VersionLine}
DetectStderrs == {"", "usage: java 17.0"}

\* the characters of the outputs above
chars(output) ==
    IF output = VersionLine
    THEN <<"v", "1", ".", "2", "0", ".", "3", " ", "p", "y", "3", ".", "9">>
    ELSE IF output = "usage: java 17.0"
    THEN <<"u", "s", "a", "g", "e", ":", " ", "j", "a", "v", "a", " ", "1", "7", ".", "0">>
    ELSE IF output = " \n" THEN <<" ", "\n">>
    ELSE <<>>

\* \d
isDigit(c) == c \in {"0", "1", "2", "3", "4", "5", "6", "7", "8", "9"}

\* [\.\d]
isDigitOrDot(c) == isDigit(c) \/ c = "."

RECURSIVE runEnd(_, _, _)
\* the last position of the longest run from position i on whose characters
\* are digits (dots too if withDots), i - 1 if there is none
runEnd(cs, i, withDots) ==
    IF i <= Len(cs) /\ (IF withDots THEN isDigitOrDot(cs[i]) ELSE isDigit(cs[i]))
    THEN runEnd(cs, i + 1, withDots)
    ELSE i - 1

\* the end of the match of \d+\.\d+[\.\d]* that starts at position i, 0 if
\* none starts there
matchEnd(cs, i) ==
    LET k == runEnd(cs, i, FALSE)
    IN IF k >= i /\ k + 2 <= Len(cs) /\ cs[k + 1] = "." /\ isDigit(cs[k + 2])
       THEN runEnd(cs, k + 2, TRUE)
       ELSE 0

RECURSIVE concatChars(_)
concatChars(cs) == IF cs = <<>> THEN "" ELSE Head(cs) \o concatChars(Tail(cs))

RECURSIVE firstMatchFrom(_, _)
\* the regular expression is tried at every position from the left
firstMatchFrom(cs, i) ==
    IF i > Len(cs) THEN ""
    ELSE IF matchEnd(cs, i) # 0 THEN concatChars(SubSeq(cs, i, matchEnd(cs, i)))
    ELSE firstMatchFrom(cs, i + 1)

\* output.match(/(\d+\.\d+[\.\d]*)/), "" for no match
versionMatch(output) == firstMatchFrom(chars(output), 1)

\* mutant: stderr is looked at before stdout
detectOutputStderrFirst(result) ==
    trim(IF result.stderr # "" THEN result.stderr ELSE result.stdout)

\* (result.stdout || result.stderr || '').trim()
detectOutput(result) == trim(IF result.stdout # "" THEN result.stdout ELSE result.stderr)

\* versionMatch ? versionMatch[1] : 'unknown'
detectVersion(result) ==
    IF versionMatch(detectOutput(result)) # ""
    THEN versionMatch(detectOutput(result))
    ELSE "unknown"

\* null as the value of a probe
NoEntry == [present |-> FALSE]

\* mutant: a detect command that exits non-zero counts as failed
outputSeenAndExitZero(result) ==
    (result.stdout # "" \/ result.stderr # "") /\ result.exitCode = 0

\* if (result.stdout || result.stderr)
outputSeen(result) == result.stdout # "" \/ result.stderr # ""

\* the value the mapper of a tool returns for the result of its exec call
probeValue(tool, result) ==
    IF result.timedOut THEN NoEntry
    ELSE IF outputSeen(result)
         THEN [present |-> TRUE, id |-> tool.id, tool |-> tool, version |-> detectVersion(result)]
         ELSE NoEntry

\* the mapper is an async function and exec never rejects: its promise is
\* fulfilled with the value
probeSettled(tool, promise) ==
    [status |-> "fulfilled", value |-> probeValue(tool, promise.value)]

Pending == [status |-> "pending"]

\* mutant: the entries are set as the probes complete
collectOrderOfCompletion(n, completed) == completed

\* Promise.allSettled keeps the order of its input, whatever settled first
collectOrder(n, completed) == [i \in 1..n |-> i]

\* for (const result of results) if fulfilled and value: available.set(id, value)
\* (the ids of the registry are distinct, no entry is set twice)
availableOf(order, res) ==
    LET inOrder == [k \in DOMAIN order |-> res[order[k]]]
        kept == SelectSeq(inOrder, LAMBDA r : r.status = "fulfilled" /\ r.value.present)
    IN [k \in DOMAIN kept |-> kept[k].value]

\* TOOL_REGISTRY.map(async tool => ...) runs every mapper up to its await: all
\* detect commands are started before any of them is waited for
DiscoverInit ==
    /\ IdleExcept("discover")
    /\ probes \in [1..MaxProbes ->
           {Process(hangs, out, err, code, timerArmed(execTimeout(DetectTimeout))) :
               hangs \in BOOLEAN, out \in DetectStdouts, err \in DetectStderrs,
               code \in ExitCodes}]
    /\ \A i \in 1..MaxProbes : probes[i].hangs => probes[i].code = 0
    /\ results = [i \in 1..MaxProbes |-> Pending]
    /\ completionOrder = <<>>
    /\ available = <<>>
    /\ dpc = "probing"

\* a detect command ends on its own: exec resolves and the mapper returns
ProbeExits(i) ==
    /\ dpc = "probing" /\ probes[i].state = "running" /\ ~probes[i].hangs
    /\ probes' = [probes EXCEPT ![i].state = "exited"]
    /\ results' = [results EXCEPT ![i] =
           probeSettled(TOOL_REGISTRY[i],
                        execSettle(ExitError(probes[i].code), probes[i].stdout, probes[i].stderr))]
    /\ completionOrder' = Append(completionOrder, i)
    /\ UNCHANGED <<available, dpc>>
    /\ Frame("discover")

\* the timeout of a detect command elapses first: it is killed, exec resolves
\* with what it wrote so far and the mapper returns
ProbeTimesOut(i) ==
    /\ dpc = "probing" /\ probes[i].state = "running" /\ probes[i].timerArmed
    /\ probes' = [probes EXCEPT ![i].state = "killed"]
    /\ results' = [results EXCEPT ![i] =
           probeSettled(TOOL_REGISTRY[i],
                        execSettle(KilledError, probes[i].stdout, probes[i].stderr))]
    /\ completionOrder' = Append(completionOrder, i)
    /\ UNCHANGED <<available, dpc>>
    /\ Frame("discover")

\* every probe has settled: allSettled resolves and the Map is built
Collect ==
    /\ dpc = "probing" /\ \A i \in 1..MaxProbes : results[i].status # "pending"
    /\ available' = availableOf(collectOrder(MaxProbes, completionOrder), results)
    /\ dpc' = "collected"
    /\ UNCHANGED <<probes, results, completionOrder>>
    /\ Frame("discover")

DiscoverNext ==
    \/ \E i \in 1..MaxProbes : ProbeExits(i)
    \/ \E i \in 1..MaxProbes : ProbeTimesOut(i)
    \/ Collect

SpecDiscover == DiscoverInit /\ [][DiscoverNext]_vars

(***************************************************************************)
(* getToolsForCategory (tools/runner.mjs)                                  *)
(***************************************************************************)
\* Bound of the number of tools in the availability map
MaxAvailable == 3

\* the manager of every entry of PACKAGE_MANAGERS (utils/detect-ecosystem.mjs)
PACKAGE_MANAGERS ==
    <<"pnpm", "yarn", "npm", "bun", "mix", "pipenv", "poetry", "cargo", "go", "bundler",
      "composer", "pub">>

\* packageManager = null
NoPackageManager == ""

\* what detectEcosystem can report as packageManager
DetectedPackageManagers == Range(PACKAGE_MANAGERS) \cup {NoPackageManager}

\* tool.categories.includes(category)
categoryMatches(tool, cat) == cat \in Range(tool.categories)

\* mutant: a restricted tool passes when no package manager was detected
ecosystemAllowsWithoutManager(tool, pm) ==
    tool.ecosystems = {} \/ pm = NoPackageManager \/ pm \in tool.ecosystems

\* if (tool.ecosystems) { if (!packageManager || !includes) continue; }
ecosystemAllows(tool, pm) ==
    tool.ecosystems = {} \/ (pm # NoPackageManager /\ pm \in tool.ecosystems)

\* the entries of the Map that pass both tests, in iteration order
getToolsForCategory(avail, cat, pm) ==
    SelectSeq(avail, LAMBDA entry : categoryMatches(entry.tool, cat) /\ ecosystemAllows(entry.tool, pm))

\* the maps discoverTools can return with at most MaxAvailable tools: entries
\* in registry order
AvailableMapsUpTo(n) ==
    {[k \in DOMAIN ts |-> [present |-> TRUE, id |-> ts[k].id, tool |-> ts[k], version |-> "unknown"]] :
        ts \in SubSeqsUpTo(TOOL_REGISTRY, n)}

AvailableMaps == AvailableMapsUpTo(MaxAvailable)

SelectInit ==
    /\ IdleExcept("select")
    /\ availableArg \in AvailableMaps
    /\ categoryArg \in ToolCategories
    /\ packageManagerArg \in DetectedPackageManagers
    /\ matching = <<>>
    /\ spc = "called"

GetToolsForCategory ==
    /\ spc = "called"
    /\ matching' = getToolsForCategory(availableArg, categoryArg, packageManagerArg)
    /\ spc' = "returned"
    /\ UNCHANGED <<availableArg, categoryArg, packageManagerArg>>
    /\ Frame("select")

SelectNext == GetToolsForCategory

SpecSelect == SelectInit /\ [][SelectNext]_vars

(***************************************************************************)
(* graphAnalysis on corpora large enough for hubs                          *)
(***************************************************************************)
\* Bounds: the files of the large and of the medium corpus, and the files of
\* the medium corpus that others import
LargeCorpus == 100
MediumCorpus == 20
MaxTargets == 6

\* the resolved imports of n code files where file t, for every position t of
\* degrees, is imported by exactly the first degrees[t] of the other files
HubImports(n, degrees) ==
    LET imports(i, t) == (i < t /\ i <= degrees[t]) \/ (i > t /\ i <= degrees[t] + 1)
    IN [i \in 1..n |-> SelectSeq([t \in DOMAIN degrees |-> t], LAMBDA t : imports(i, t))]

\* the loop of lines 70-91: a file whose readLines() is null is skipped, the
\* imports of the others are resolved against all code files
buildGraph(n, resolvedImports, unreadable) ==
    [keys |-> SelectSeq([i \in 1..n |-> i], LAMBDA i : i \notin unreadable),
     adj |-> [i \in 1..n |-> IF i \in unreadable THEN <<>> ELSE resolvedImports[i]]]

\* the files that fail to read: none, the first or the last
Unreadables(n) == {{}, {1}, {n}}

\* corpora of 10 files, of MediumCorpus readable files with up to MaxTargets
\* imported files around the minimum of 10, and of LargeCorpus files with two
\* imported files around 15
HubCorpora ==
    {[n |-> 10, imports |-> HubImports(10, d), unreadable |-> u] :
        d \in [1..2 -> {2, 9}], u \in Unreadables(10)}
        \cup {[n |-> MediumCorpus, imports |-> HubImports(MediumCorpus, d), unreadable |-> {}] :
                d \in [1..MaxTargets -> 9..11]}
        \cup {[n |-> LargeCorpus, imports |-> HubImports(LargeCorpus, d), unreadable |-> u] :
                d \in [1..2 -> 14..16], u \in Unreadables(LargeCorpus)}

HubInit ==
    /\ IdleExcept("graph")
    /\ \E corpus \in HubCorpora :
           /\ graph = buildGraph(corpus.n, corpus.imports, corpus.unreadable)
           /\ codeFileCount = corpus.n
    /\ cycles = <<>> /\ graphFindings = <<>> /\ stats = <<>> /\ importsFindings = <<>>
    /\ gpc = "built"

SpecHubs == HubInit /\ [][GraphNext]_vars

(***************************************************************************)
(* The parsers of tool output (tools/parsers.mjs)                          *)
(***************************************************************************)
\* A raw output is described by its shape and, for a report in the native
\* format of the parser with one entry, by the severity word of that entry
\* ("" when the entry has none):
\*   malformed    no JSON, and no block of a text report
\*   null         the JSON text null
\*   number       a JSON number
\*   nullMembers  the container the parser expects, its members null
\*   report       one entry of the native format
NativeWords ==
    {"", "critical", "CRITICAL", "high", "HIGH", "High", "moderate", "MODERATE", "medium",
     "low", "info", "UNKNOWN", "informational", "error", "bogus", "constructor"}

Raws ==
    {[shape |-> sh, word |-> ""] : sh \in {"malformed", "null", "number", "nullMembers"}}
        \cup {[shape |-> "report", word |-> w] : w \in NativeWords}

\* String.prototype.toLowerCase and toUpperCase on the words above
toLowerCase(w) ==
    CASE w = "CRITICAL" -> "critical"
      [] w \in {"HIGH", "High"} -> "high"
      [] w = "MODERATE" -> "moderate"
      [] w = "UNKNOWN" -> "unknown"
      [] OTHER -> w

toUpperCase(w) ==
    CASE w \in {"critical", "CRITICAL"} -> "CRITICAL"
      [] w \in {"high", "HIGH", "High"} -> "HIGH"
      [] w \in {"moderate", "MODERATE"} -> "MODERATE"
      [] w = "medium" -> "MEDIUM"
      [] w = "low" -> "LOW"
      [] w = "info" -> "INFO"
      [] w = "informational" -> "INFORMATIONAL"
      [] w = "error" -> "ERROR"
      [] w = "bogus" -> "BOGUS"
      [] w = "constructor" -> "CONSTRUCTOR"
      [] OTHER -> w

\* the names every object literal inherits from Object.prototype, among the words
InheritedKeys == {"constructor"}

\* map[key] of an object literal: its own value, what it inherits ("[inherited]",
\* a function), or undefined ("")
objectGet(map, key) ==
    IF key \in DOMAIN map THEN map[key]
    ELSE IF key \in InheritedKeys THEN "[inherited]"
    ELSE ""

\* value || SEVERITY.MEDIUM
orMedium(value) == IF value # "" THEN value ELSE SEVERITY_MEDIUM

SEVERITY_CRITICAL == "critical"
SEVERITY_INFO == "info"

\* the severityMap literals of the parsers
NpmSeverityMap ==
    ("critical" :> SEVERITY_CRITICAL) @@ ("high" :> SEVERITY_HIGH) @@ ("moderate" :> SEVERITY_MEDIUM)
        @@ ("low" :> SEVERITY_LOW) @@ ("info" :> SEVERITY_INFO)

TrivySeverityMap ==
    ("CRITICAL" :> SEVERITY_CRITICAL) @@ ("HIGH" :> SEVERITY_HIGH) @@ ("MEDIUM" :> SEVERITY_MEDIUM)
        @@ ("LOW" :> SEVERITY_LOW) @@ ("UNKNOWN" :> SEVERITY_INFO)

OsvSeverityMap ==
    ("CRITICAL" :> SEVERITY_CRITICAL) @@ ("HIGH" :> SEVERITY_HIGH) @@ ("MODERATE" :> SEVERITY_MEDIUM)
        @@ ("MEDIUM" :> SEVERITY_MEDIUM) @@ ("LOW" :> SEVERITY_LOW)

CargoSeverityMap ==
    ("critical" :> SEVERITY_CRITICAL) @@ ("high" :> SEVERITY_HIGH) @@ ("medium" :> SEVERITY_MEDIUM)
        @@ ("low" :> SEVERITY_LOW) @@ ("informational" :> SEVERITY_INFO)

MixSeverityMap ==
    ("critical" :> SEVERITY_CRITICAL) @@ ("high" :> SEVERITY_HIGH) @@ ("moderate" :> SEVERITY_MEDIUM)
        @@ ("medium" :> SEVERITY_MEDIUM) @@ ("low" :> SEVERITY_LOW)

BundlerSeverityMap ==
    ("critical" :> SEVERITY_CRITICAL) @@ ("high" :> SEVERITY_HIGH) @@ ("medium" :> SEVERITY_MEDIUM)
        @@ ("low" :> SEVERITY_LOW)

BanditSeverityMap ==
    ("HIGH" :> SEVERITY_HIGH) @@ ("MEDIUM" :> SEVERITY_MEDIUM) @@ ("LOW" :> SEVERITY_LOW)

SemgrepSeverityMap ==
    ("ERROR" :> SEVERITY_HIGH) @@ ("WARNING" :> SEVERITY_MEDIUM) @@ ("INFO" :> SEVERITY_LOW)

\* sarifLevelToSeverity: a switch, nothing inherited
sarifLevelToSeverity(level) ==
    CASE level = "error" -> SEVERITY_HIGH
      [] level = "warning" -> SEVERITY_MEDIUM
      [] level = "note" -> SEVERITY_LOW
      [] level = "none" -> SEVERITY_INFO
      [] OTHER -> SEVERITY_MEDIUM

\* severityMap[info.severity]: a missing field reads the key "undefined"
keyOfField(word) == IF word = "" THEN "undefined" ELSE word

\* the severity the parser computes for an entry whose severity field is word
\* (for Semgrep both extra.metadata.severity and extra.severity; the entries of
\* ESLint, TruffleHog, Gitleaks, Madge and pip-audit carry no severity word)
parserSeverity(parserId, word) ==
    CASE parserId = "sarif" -> sarifLevelToSeverity(word)
      [] parserId = "semgrep-json" ->
            IF word \in {"CRITICAL", "critical"} THEN SEVERITY_CRITICAL
            ELSE IF word \in {"ERROR", "HIGH", "high"} THEN SEVERITY_HIGH
            ELSE orMedium(objectGet(SemgrepSeverityMap, keyOfField(word)))
      [] parserId = "eslint-json" -> SEVERITY_LOW
      [] parserId = "trivy-json" -> orMedium(objectGet(TrivySeverityMap, toUpperCase(word)))
      [] parserId = "bandit-json" -> orMedium(objectGet(BanditSeverityMap, toUpperCase(word)))
      [] parserId = "trufflehog-json" -> SEVERITY_HIGH
      [] parserId = "gitleaks-json" -> SEVERITY_HIGH
      [] parserId = "madge-json" -> SEVERITY_MEDIUM
      [] parserId \in {"npm-audit-json", "pnpm-audit-json", "yarn-audit-json"} ->
            orMedium(objectGet(NpmSeverityMap, keyOfField(word)))
      [] parserId = "osv-scanner-json" -> orMedium(objectGet(OsvSeverityMap, toUpperCase(word)))
      [] parserId = "mix-audit-text" -> orMedium(objectGet(MixSeverityMap, toLowerCase(word)))
      [] parserId = "cargo-audit-json" -> orMedium(objectGet(CargoSeverityMap, toLowerCase(word)))
      [] parserId = "pip-audit-json" -> SEVERITY_HIGH
      [] parserId = "bundler-audit-text" -> orMedium(objectGet(BundlerSeverityMap, toLowerCase(word)))

\* mutant: the pnpm parser labels its findings as npm's
parserToolIdShared(parserId, toolId) ==
    CASE parserId = "sarif" -> toolId
      [] parserId = "semgrep-json" -> "semgrep"
      [] parserId = "eslint-json" -> "eslint"
      [] parserId = "trivy-json" -> "trivy"
      [] parserId = "bandit-json" -> "bandit"
      [] parserId = "trufflehog-json" -> "trufflehog"
      [] parserId = "gitleaks-json" -> "gitleaks"
      [] parserId = "madge-json" -> "madge"
      [] parserId \in {"npm-audit-json", "pnpm-audit-json"} -> "npm-audit"
      [] parserId = "yarn-audit-json" -> "yarn-audit"
      [] parserId = "osv-scanner-json" -> "osv-scanner"
      [] parserId = "mix-audit-text" -> "mix-audit"
      [] parserId = "cargo-audit-json" -> "cargo-audit"
      [] parserId = "pip-audit-json" -> "pip-audit"
      [] parserId = "bundler-audit-text" -> "bundler-audit"

\* the toolId the parser writes into its findings: parseSarif its third
\* argument, every other parser a literal
parserToolId(parserId, toolId) ==
    CASE parserId = "sarif" -> toolId
      [] parserId = "semgrep-json" -> "semgrep"
      [] parserId = "eslint-json" -> "eslint"
      [] parserId = "trivy-json" -> "trivy"
      [] parserId = "bandit-json" -> "bandit"
      [] parserId = "trufflehog-json" -> "trufflehog"
      [] parserId = "gitleaks-json" -> "gitleaks"
      [] parserId = "madge-json" -> "madge"
      [] parserId = "npm-audit-json" -> "npm-audit"
      [] parserId = "pnpm-audit-json" -> "pnpm-audit"
      [] parserId = "yarn-audit-json" -> "yarn-audit"
      [] parserId = "osv-scanner-json" -> "osv-scanner"
      [] parserId = "mix-audit-text" -> "mix-audit"
      [] parserId = "cargo-audit-json" -> "cargo-audit"
      [] parserId = "pip-audit-json" -> "pip-audit"
      [] parserId = "bundler-audit-text" -> "bundler-audit"

\* the file the parser writes into its findings (NoFile: null or the entry's)
parserFile(parserId) ==
    CASE parserId = "mix-audit-text" -> "mix.exs"
      [] parserId = "cargo-audit-json" -> "Cargo.toml"
      [] parserId = "pip-audit-json" -> "requirements.txt"
      [] parserId = "bundler-audit-text" -> "Gemfile"
      [] OTHER -> NoFile

TextParsers == {"mix-audit-text", "bundler-audit-text"}
\* the parsers that JSON.parse each line on its own and skip the lines that fail
LineParsers == {"trufflehog-json", "yarn-audit-json"}
\* the parsers that return [] unless Array.isArray(data)
ArrayParsers == {"gitleaks-json", "madge-json"}

\* whether the body of the parser throws on the raw output before it reaches
\* finding(): JSON.parse on no JSON, a property of null, for...of over a
\* non-iterable
bodyThrows(parserId, raw) ==
    CASE parserId \in TextParsers -> FALSE
      [] raw.shape = "malformed" -> parserId \notin LineParsers
      [] raw.shape = "null" -> parserId \notin ArrayParsers
      [] raw.shape = "number" -> parserId \in {"eslint-json", "pip-audit-json"}
      [] raw.shape = "nullMembers" -> parserId \notin {"madge-json", "trufflehog-json", "yarn-audit-json"}
      [] OTHER -> FALSE

\* the severity words of the entries the parser reaches finding() for: the one
\* entry of a report; parseTrufflehogJson takes any JSON value that is not null
\* for a detection
entryWords(parserId, raw) ==
    IF raw.shape = "report" THEN <<raw.word>>
    ELSE IF parserId = "trufflehog-json" /\ raw.shape \in {"number", "nullMembers"} THEN <<"">>
    ELSE <<>>

\* the body of a parser: what it returns, or that it threw
parserBody(parserId, raw, category, toolId) ==
    LET words == entryWords(parserId, raw)
    IN IF bodyThrows(parserId, raw)
           \/ \E i \in DOMAIN words : findingThrows(parserSeverity(parserId, words[i]))
       THEN [threw |-> TRUE, findings |-> <<>>]
       ELSE [threw |-> FALSE,
             findings |-> [i \in DOMAIN words |->
                 [analyzer |-> category, severity |-> parserSeverity(parserId, words[i]),
                  file |-> parserFile(parserId), line |-> NoLine, source |-> "tool",
                  toolId |-> parserToolId(parserId, toolId)]]]

\* try { ... } catch { return []; } around the whole body: every parser but the
\* two text parsers
hasTry(parserId) == parserId \notin TextParsers

\* PARSERS[parserId](raw, analyzer, toolId)
parse(parserId, raw, category, toolId) ==
    LET body == parserBody(parserId, raw, category, toolId)
    IN IF body.threw /\ hasTry(parserId) THEN [threw |-> FALSE, findings |-> <<>>] ELSE body

RegistryIds == {TOOL_REGISTRY[i].id : i \in DOMAIN TOOL_REGISTRY}

ParseInit ==
    /\ IdleExcept("parse")
    /\ parserIdArg \in PARSERS
    /\ rawArg \in Raws
    /\ analyzerArg \in ToolCategories
    /\ toolIdArg \in RegistryIds
    /\ parserFindings = <<>>
    /\ ppc = "called"

\* the parser returns its array
ParserReturns ==
    /\ ppc = "called"
    /\ ~parse(parserIdArg, rawArg, analyzerArg, toolIdArg).threw
    /\ parserFindings' = parse(parserIdArg, rawArg, analyzerArg, toolIdArg).findings
    /\ ppc' = "returned"
    /\ UNCHANGED <<parserIdArg, rawArg, analyzerArg, toolIdArg>>
    /\ Frame("parse")

\* the exception of finding() leaves the parser
ParserThrows ==
    /\ ppc = "called"
    /\ parse(parserIdArg, rawArg, analyzerArg, toolIdArg).threw
    /\ ppc' = "threw"
    /\ UNCHANGED <<parserIdArg, rawArg, analyzerArg, toolIdArg, parserFindings>>
    /\ Frame("parse")

ParseNext == ParserReturns \/ ParserThrows

SpecParse == ParseInit /\ [][ParseNext]_vars

(***************************************************************************)
(* The analyzers that run tools (analyzers/secrets.mjs, security.mjs,      *)
(* dependencies.mjs, imports.mjs), called one after the other by main      *)
(***************************************************************************)
\* Bound: the tools discoverTools found
MaxAnalyzerTools == 2

\* the analyzers with a tool phase, in the order main awaits them
AnalyzerOrder == <<"secrets", "security", "dependencies", "imports">>

\* what exec can resolve to, as far as runTool reads it
ExecResults ==
    {[timedOut |-> TRUE, stdout |-> ""]} \cup {[timedOut |-> FALSE, stdout |-> out] : out \in Stdouts}

\* a finding of the pattern analysis of a category
patternFinding(cat, file, line) ==
    [analyzer |-> cat, severity |-> SEVERITY_MEDIUM, file |-> file, line |-> line,
     source |-> "regex", toolId |-> ""]

\* what the pattern analysis of a category can return: nothing, one finding at
\* the place of the tools' finding, or two findings elsewhere
PatternResults(cat) ==
    {<<>>, <<patternFinding(cat, "a.js", 1)>>,
     <<patternFinding(cat, "b.js", 3), patternFinding(cat, NoFile, NoLine)>>}

\* mutant: only a run that succeeded is recorded
pushMetaOnSuccess(metas, ret) ==
    IF ret.meta.status = "success" THEN Append(metas, ret.meta) ELSE metas

\* if (result) { ...; toolsMeta.push(result.meta); }: runTool returns an object
pushMeta(metas, ret) == Append(metas, ret.meta)

AnalyzeInit ==
    /\ IdleExcept("analyze")
    /\ optsAvailable \in AvailableMapsUpTo(MaxAnalyzerTools)
    /\ optsManager \in DetectedPackageManagers
    /\ catIdx = 1
    /\ catTools = <<>> /\ catToolIdx = 0
    /\ catToolFindings = <<>> /\ catToolsMeta = <<>>
    /\ catRegexFindings = <<>> /\ catResult = <<>>
    /\ apc = "start"

\* the analyzer is called: const tools = getToolsForCategory(availableTools,
\* ANALYZER, ecosystem?.packageManager)
AnalyzerSelectsTools ==
    /\ apc = "start"
    /\ catTools' = getToolsForCategory(optsAvailable, AnalyzerOrder[catIdx], optsManager)
    /\ catToolIdx' = 1
    /\ apc' = "tools"
    /\ UNCHANGED <<optsAvailable, optsManager, catIdx, catToolFindings, catToolsMeta,
                   catRegexFindings, catResult>>
    /\ Frame("analyze")

\* one turn of the loop over tools: await runTool(toolEntry, rootDir, ANALYZER)
\* and the two pushes; an exception of runTool leaves the analyzer
AnalyzerRunsTool ==
    /\ apc = "tools" /\ catToolIdx <= Len(catTools)
    /\ \E result \in ExecResults :
          LET ret == runToolReturn(catTools[catToolIdx].tool, AnalyzerOrder[catIdx], result)
          IN IF ret.threw
             THEN /\ apc' = "threw"
                  /\ UNCHANGED <<catToolIdx, catToolFindings, catToolsMeta>>
             ELSE /\ catToolFindings' = catToolFindings \o ret.findings
                  /\ catToolsMeta' = pushMeta(catToolsMeta, ret)
                  /\ catToolIdx' = catToolIdx + 1
                  /\ apc' = "tools"
    /\ UNCHANGED <<optsAvailable, optsManager, catIdx, catTools, catRegexFindings, catResult>>
    /\ Frame("analyze")

\* the loop is over: the pattern analysis of the category runs
AnalyzerRunsPatterns ==
    /\ apc = "tools" /\ catToolIdx > Len(catTools)
    /\ catRegexFindings' \in PatternResults(AnalyzerOrder[catIdx])
    /\ apc' = "pattern"
    /\ UNCHANGED <<optsAvailable, optsManager, catIdx, catTools, catToolIdx, catToolFindings,
                   catToolsMeta, catResult>>
    /\ Frame("analyze")

\* return { findings: deduplicateFindings(toolFindings, regexFindings), toolsMeta }
AnalyzerReturns ==
    /\ apc = "pattern"
    /\ catResult' = [findings |-> deduplicateFindings(catToolFindings, catRegexFindings),
                     toolsMeta |-> catToolsMeta]
    /\ apc' = "returned"
    /\ UNCHANGED <<optsAvailable, optsManager, catIdx, catTools, catToolIdx, catToolFindings,
                   catToolsMeta, catRegexFindings>>
    /\ Frame("analyze")

\* main goes on to the next analyzer, with the same toolOpts
NextAnalyzer ==
    /\ apc = "returned"
    /\ IF catIdx < Len(AnalyzerOrder)
       THEN /\ catIdx' = catIdx + 1
            /\ apc' = "start"
       ELSE /\ catIdx' = catIdx
            /\ apc' = "finished"
    /\ catTools' = <<>> /\ catToolIdx' = 0
    /\ catToolFindings' = <<>> /\ catToolsMeta' = <<>>
    /\ catRegexFindings' = <<>> /\ catResult' = <<>>
    /\ UNCHANGED <<optsAvailable, optsManager>>
    /\ Frame("analyze")

AnalyzeNext ==
    \/ AnalyzerSelectsTools \/ AnalyzerRunsTool \/ AnalyzerRunsPatterns
    \/ AnalyzerReturns \/ NextAnalyzer

SpecAnalyze == AnalyzeInit /\ [][AnalyzeNext]_vars

(***************************************************************************)
(* The orchestrator: main (audit.mjs)                                      *)
(***************************************************************************)
\* Bound: the tools discoverTools finds
MaxMainTools == 1

\* the seven analyzers in the order main awaits them
ANALYZERS ==
    <<"structure", "secrets", "security", "dependencies", "tests", "imports", "ai-patterns">>

\* mutant: a single file is taken for none
noFilesBelowTwo(n) == n <= 1

\* if (files.length === 0)
noFiles(n) == n = 0

\* the tools of the analyzer: those with a tool phase ask getToolsForCategory
toolsOfAnalyzer(name, avail, pm) ==
    IF name \in ToolCategories THEN getToolsForCategory(avail, name, pm) ELSE <<>>

MainInit ==
    /\ IdleExcept("main")
    /\ fileCount = 0 /\ ecosystemManager = NoPackageManager /\ availableTools = <<>>
    /\ analyzerIdx = 0 /\ mainTools = <<>> /\ allToolsMeta = <<>>
    /\ exitCode = -1
    /\ mpc = "Init"

\* Phase 1: collectFiles; without files the process exits with code 1
CollectFiles ==
    /\ mpc = "Init"
    /\ \E n \in 0..1 :
          /\ fileCount' = n
          /\ IF noFiles(n)
             THEN mpc' = "Exited" /\ exitCode' = 1
             ELSE mpc' = "FilesCollected" /\ exitCode' = exitCode
    /\ UNCHANGED <<ecosystemManager, availableTools, analyzerIdx, mainTools, allToolsMeta>>
    /\ Frame("main")

\* Phase 2: detectEcosystem
DetectEcosystem ==
    /\ mpc = "FilesCollected"
    /\ ecosystemManager' \in DetectedPackageManagers
    /\ mpc' = "EcosystemDetected"
    /\ UNCHANGED <<fileCount, availableTools, analyzerIdx, mainTools, allToolsMeta, exitCode>>
    /\ Frame("main")

\* Phase 3: discoverTools (and getMissingTools, which only reads)
DiscoverTools ==
    /\ mpc = "EcosystemDetected"
    /\ availableTools' \in AvailableMapsUpTo(MaxMainTools)
    /\ mpc' = "ToolsDiscovered"
    /\ UNCHANGED <<fileCount, ecosystemManager, analyzerIdx, mainTools, allToolsMeta, exitCode>>
    /\ Frame("main")

\* Phase 4: an analyzer is called, the first after discovery, the others after
\* the one before returned
CallAnalyzer ==
    /\ \/ mpc = "ToolsDiscovered" /\ analyzerIdx' = 1
       \/ mpc = "AnalyzerReturned" /\ analyzerIdx < Len(ANALYZERS) /\ analyzerIdx' = analyzerIdx + 1
    /\ mainTools' = toolsOfAnalyzer(ANALYZERS[analyzerIdx'], availableTools, ecosystemManager)
    /\ mpc' = "Analyzing"
    /\ UNCHANGED <<fileCount, ecosystemManager, availableTools, allToolsMeta, exitCode>>
    /\ Frame("main")

\* the analyzer awaits runTool for its next tool; an exception of runTool
\* rejects main, whose catch exits with code 1
AnalyzerToolRun ==
    /\ mpc = "Analyzing" /\ mainTools # <<>>
    /\ \E result \in ExecResults :
          LET ret == runToolReturn(Head(mainTools).tool, ANALYZERS[analyzerIdx], result)
          IN IF ret.threw
             THEN /\ mpc' = "Exited" /\ exitCode' = 1
                  /\ UNCHANGED <<mainTools, allToolsMeta>>
             ELSE /\ allToolsMeta' = Append(allToolsMeta, [toolId |-> ret.meta.toolId,
                                                            status |-> ret.meta.status])
                  /\ mainTools' = Tail(mainTools)
                  /\ UNCHANGED <<mpc, exitCode>>
    /\ UNCHANGED <<fileCount, ecosystemManager, availableTools, analyzerIdx>>
    /\ Frame("main")

\* the analyzer runs its pattern analysis and returns; main pushes its findings
AnalyzerDone ==
    /\ mpc = "Analyzing" /\ mainTools = <<>>
    /\ mpc' = "AnalyzerReturned"
    /\ UNCHANGED <<fileCount, ecosystemManager, availableTools, analyzerIdx, mainTools,
                   allToolsMeta, exitCode>>
    /\ Frame("main")

\* the seventh analyzer has returned: allFindings and allToolsMeta are complete
Aggregate ==
    /\ mpc = "AnalyzerReturned" /\ analyzerIdx = Len(ANALYZERS)
    /\ mpc' = "Aggregated"
    /\ UNCHANGED <<fileCount, ecosystemManager, availableTools, analyzerIdx, mainTools,
                   allToolsMeta, exitCode>>
    /\ Frame("main")

\* Phase 5: generateReport and writeFile (the target directory is writable)
Report ==
    /\ mpc = "Aggregated"
    /\ mpc' = "Reported"
    /\ UNCHANGED <<fileCount, ecosystemManager, availableTools, analyzerIdx, mainTools,
                   allToolsMeta, exitCode>>
    /\ Frame("main")

\* the summary is printed and main resolves: the process ends with code 0
Finish ==
    /\ mpc = "Reported"
    /\ mpc' = "Done" /\ exitCode' = 0
    /\ UNCHANGED <<fileCount, ecosystemManager, availableTools, analyzerIdx, mainTools,
                   allToolsMeta>>
    /\ Frame("main")

MainNext ==
    \/ CollectFiles \/ DetectEcosystem \/ DiscoverTools \/ CallAnalyzer
    \/ AnalyzerToolRun \/ AnalyzerDone \/ Aggregate \/ Report \/ Finish

SpecMain == MainInit /\ [][MainNext]_vars

\* every await of main settles: the walks and reads end, and exec resolves at
\* the latest when its timeout kills the child
MainFairness ==
    /\ WF_vars(CollectFiles) /\ WF_vars(DetectEcosystem) /\ WF_vars(DiscoverTools)
    /\ WF_vars(CallAnalyzer) /\ WF_vars(AnalyzerToolRun) /\ WF_vars(AnalyzerDone)
    /\ WF_vars(Aggregate) /\ WF_vars(Report) /\ WF_vars(Finish)

SpecMainFair == SpecMain /\ MainFairness

(***************************************************************************)
(* finding(), sortFindings and the sections of the report                  *)
(* (utils/severity.mjs, report/generator.mjs)                              *)
(***************************************************************************)
\* Bound: the findings of one run
MaxReportFindings == 3

\* SEVERITY_ORDER: rank by name
SEVERITY_ORDER ==
    (SEVERITY_CRITICAL :> 0) @@ (SEVERITY_HIGH :> 1) @@ (SEVERITY_MEDIUM :> 2)
        @@ (SEVERITY_LOW :> 3) @@ (SEVERITY_INFO :> 4)

\* the values a caller hands to finding() as severity: the five names, names in
\* another case, unknown words, names every object inherits, undefined ("") and
\* the function a parser's severityMap yields for an inherited name
SeverityValues ==
    DOMAIN SEVERITY_ORDER
        \cup {"HIGH", "Critical", "moderate", "bogus", "constructor", "toString", "", "[inherited]"}

\* the property key a value is converted to
toPropertyKey(value) ==
    CASE value = "" -> "undefined"
      [] value = "[inherited]" -> "function Object() { [native code] }"
      [] OTHER -> value

\* mutant: obj[key] of an inherited name counts as a key (the in operator)
hasPropertyInherited(obj, key) == key \in DOMAIN obj \/ key \in {"constructor", "toString"}

\* obj.hasOwnProperty(key)
hasOwnProperty(obj, key) == key \in DOMAIN obj

\* if (!SEVERITY_ORDER.hasOwnProperty(severity)) throw new Error(...)
findingIsInvalid(severity) == ~hasOwnProperty(SEVERITY_ORDER, toPropertyKey(severity))

\* the object finding() returns, reduced to the fields the report orders by
finding(category, severity, title) ==
    [analyzer |-> category, severity |-> severity, title |-> title,
     file |-> NoFile, line |-> NoLine, source |-> "regex"]

\* mutant: the list is returned as it came
sortFindingsUnsorted(fs) == fs

\* [...findings].sort((a, b) => SEVERITY_ORDER[a.severity] - SEVERITY_ORDER[b.severity]):
\* Array.prototype.sort is stable, so the result is the findings of rank 0 in
\* their input order, then those of rank 1, and so on
RECURSIVE sortFrom(_, _)
sortFrom(fs, rank) ==
    IF rank > 4 THEN <<>>
    ELSE SelectSeq(fs, LAMBDA f : SEVERITY_ORDER[f.severity] = rank) \o sortFrom(fs, rank + 1)

sortFindings(fs) == sortFrom(fs, 0)

\* the caller's array after sortFindings: [...findings] sorts a copy
findingsAfterSort(fs) == fs

\* groupByAnalyzer: a Map analyzer -> findings, keys in the order they first occur
groupByAnalyzer(fs) ==
    LET names == firstOccurrences([i \in DOMAIN fs |-> fs[i].analyzer], {})
    IN [k \in DOMAIN names |->
          [analyzer |-> names[k],
           findings |-> SelectSeq(fs, LAMBDA f : f.analyzer = names[k])]]

\* grouped.get(analyzer) || []
sectionFindings(grouped, category) ==
    IF \E k \in DOMAIN grouped : grouped[k].analyzer = category
    THEN grouped[CHOOSE k \in DOMAIN grouped : grouped[k].analyzer = category].findings
    ELSE <<>>

\* the analyzers whose findings the report model carries
ReportAnalyzers == {"secrets", "imports"}

ReportInit ==
    /\ IdleExcept("report")
    /\ allFindings = <<>> /\ severityArg = "" /\ findingOutcome = ""
    /\ sortedFindings = <<>> /\ groupedFindings = <<>>
    /\ kpc = "collecting"

\* an analyzer or parser calls finding(); a call that returns adds to the findings
FindingCall ==
    /\ kpc = "collecting"
    /\ Len(allFindings) < MaxReportFindings
    /\ \E category \in ReportAnalyzers, severity \in SeverityValues :
          /\ severityArg' = severity
          /\ IF findingIsInvalid(severity)
             THEN /\ findingOutcome' = "threw"
                  /\ UNCHANGED allFindings
             ELSE /\ findingOutcome' = "returned"
                  /\ allFindings' = Append(allFindings,
                        finding(category, severity, "finding " \o ToString(Len(allFindings) + 1)))
    /\ UNCHANGED <<sortedFindings, groupedFindings, kpc>>
    /\ Frame("report")

\* generateReport, lines 89-90
GenerateReport ==
    /\ kpc = "collecting"
    /\ sortedFindings' = sortFindings(allFindings)
    /\ groupedFindings' = groupByAnalyzer(sortedFindings')
    /\ allFindings' = findingsAfterSort(allFindings)
    /\ kpc' = "reported"
    /\ UNCHANGED <<severityArg, findingOutcome>>
    /\ Frame("report")

ReportNext == FindingCall \/ GenerateReport

SpecReport == ReportInit /\ [][ReportNext]_vars

(***************************************************************************)
(* Graph construction: extractImports, resolveImport and the loop of       *)
(* graphAnalysis over the code files (analyzers/imports.mjs)               *)
(*                                                                         *)
(* A path or an import specifier is the sequence of its segments, the      *)
(* parts between '/'.  A line is what the five patterns of extractImports  *)
(* capture from it, <<>> for a pattern that does not match.                *)
(***************************************************************************)
\* Bound: the code files of a corpus
MaxCodeFiles == 2

\* no capture, and the null of resolveImport
NoPath == <<>>

Line(es, cjs, dyn, py, alias) == [es |-> es, cjs |-> cjs, dyn |-> dyn, py |-> py, alias |-> alias]

LineShapes ==
    { Line(<<".", "a">>, NoPath, NoPath, NoPath, NoPath),        \* import x from './a'
      Line(<<".", "b">>, NoPath, NoPath, NoPath, NoPath),        \* import x from './b'
      Line(<<".", "b.js">>, NoPath, NoPath, NoPath, NoPath),     \* export * from './b.js'
      Line(<<".", "missing">>, NoPath, NoPath, NoPath, NoPath),  \* import x from './missing'
      Line(<<"lodash">>, NoPath, NoPath, NoPath, NoPath),        \* import _ from 'lodash'
      Line(<<"lodash">>, <<".", "b">>, NoPath, NoPath, NoPath),  \* import _ from 'lodash'; require('./b')
      Line(NoPath, <<"..", "a">>, NoPath, NoPath, NoPath),       \* const a = require('../a')
      Line(NoPath, NoPath, <<".", "lib">>, NoPath, NoPath),      \* await import('./lib')
      Line(NoPath, NoPath, NoPath, <<".a">>, NoPath),            \* from .a import y
      Line(NoPath, NoPath, NoPath, <<".b">>, NoPath),            \* from .b import x
      Line(NoPath, NoPath, NoPath, NoPath, <<"b.js">>) }         \* // alias b.js

\* relative paths in the order collectFiles lists them
FileLists ==
    { <<(<<"a.js">>), (<<"b.js">>), (<<"lib", "index.js">>)>>,
      <<(<<"lib", "index.js">>), (<<"a.js">>), (<<"b.js">>)>>,
      <<(<<"pkg", "a.py">>), (<<"pkg", "b.py">>), (<<"pkg", "c.py">>)>> }

\* the corpora: the first files of a list, MaxCodeFiles at most
Corpora ==
    {SubSeq(c[1], 1, c[2]) : c \in {x \in FileLists \X (1..MaxCodeFiles) : x[2] <= Len(x[1])}}

\* the first segments used here whose first character is '.'
DotSegments == {".", "..", ".a", ".b"}

\* specifier.startsWith('.')
startsWithDot(specifier) == specifier # NoPath /\ specifier[1] \in DotSegments

\* what one line adds to imports (lines 164-200): the first pattern that
\* matches, and for the first three only a capture that starts with '.'
lineImports(line) ==
    IF startsWithDot(line.es) THEN <<line.es>>
    ELSE IF startsWithDot(line.cjs) THEN <<line.cjs>>
    ELSE IF startsWithDot(line.dyn) THEN <<line.dyn>>
    ELSE IF line.py # NoPath THEN <<line.py>>
    ELSE IF line.alias # NoPath THEN <<line.alias>>
    ELSE <<>>

RECURSIVE extractImports(_)
extractImports(lines) ==
    IF lines = <<>> THEN <<>>
    ELSE lineImports(Head(lines)) \o extractImports(Tail(lines))

\* path.dirname(fromFile)
dirname(file) == IF Len(file) = 1 THEN <<".">> ELSE SubSeq(file, 1, Len(file) - 1)

\* path.join's normalisation: '.' is dropped, '..' removes the segment before it
RECURSIVE normalize(_, _)
normalize(segments, out) ==
    IF segments = <<>> THEN (IF out = <<>> THEN <<".">> ELSE out)
    ELSE IF Head(segments) = "." THEN normalize(Tail(segments), out)
    ELSE IF Head(segments) = ".." /\ out # <<>> /\ out[Len(out)] # ".."
    THEN normalize(Tail(segments), SubSeq(out, 1, Len(out) - 1))
    ELSE normalize(Tail(segments), Append(out, Head(segments)))

\* path.join(fromDir, importPath)
pathJoin(dir, importPath) == normalize(dir \o importPath, <<>>)

\* const extensions = [...]
ResolveExtensions == <<".js", ".mjs", ".cjs", ".jsx", ".ts", ".tsx", ".py", ".ex", ".exs">>

\* resolved + ext
withExtension(resolved, ext) == [resolved EXCEPT ![Len(resolved)] = @ \o ext]

\* resolved + '/index' + ext
indexFile(resolved, ext) == Append(resolved, "index" \o ext)

\* the candidates in the order resolveImport tries them
resolveCandidates(resolved) ==
    <<resolved>>
        \o [k \in DOMAIN ResolveExtensions |-> withExtension(resolved, ResolveExtensions[k])]
        \o [k \in DOMAIN ResolveExtensions |-> indexFile(resolved, ResolveExtensions[k])]

\* mutant: an import that matches no file is kept as the path it names
resolveImportUnmatched(importPath, fromFile, allFiles) ==
    LET resolved == pathJoin(dirname(fromFile), importPath)
        found == SelectSeq(resolveCandidates(resolved), LAMBDA c : c \in Range(allFiles))
    IN IF found # <<>> THEN found[1] ELSE resolved

\* resolveImport: the first candidate that is the relativePath of a code file, or null
resolveImport(importPath, fromFile, allFiles) ==
    LET resolved == pathJoin(dirname(fromFile), importPath)
        found == SelectSeq(resolveCandidates(resolved), LAMBDA c : c \in Range(allFiles))
    IN IF found # <<>> THEN found[1] ELSE NoPath

\* mutant: resolvedImports is a list that takes a file again
setAddAgain(set, x) == Append(set, x)

\* Set.prototype.add
setAdd(set, x) == IF x \in Range(set) THEN set ELSE Append(set, x)

\* lines 75-83: the Set of the files the imports resolve to
RECURSIVE resolveAll(_, _, _, _)
resolveAll(imports, fromFile, allFiles, set) ==
    IF imports = <<>> THEN set
    ELSE LET resolved == resolveImport(Head(imports), fromFile, allFiles)
         IN resolveAll(Tail(imports), fromFile, allFiles,
                       IF resolved # NoPath THEN setAdd(set, resolved) ELSE set)

\* map.get(key) || 0
countGet(map, key) ==
    IF \E k \in DOMAIN map : map[k].file = key
    THEN map[CHOOSE k \in DOMAIN map : map[k].file = key].count
    ELSE 0

\* map.set(key, count): a new key goes last, a known key keeps its place
countSet(map, key, count) ==
    IF \E k \in DOMAIN map : map[k].file = key
    THEN [k \in DOMAIN map |-> IF map[k].file = key THEN [file |-> key, count |-> count] ELSE map[k]]
    ELSE Append(map, [file |-> key, count |-> count])

\* lines 88-90: for (const dep of resolvedImports) inDegree.set(dep, (inDegree.get(dep) || 0) + 1)
RECURSIVE countImports(_, _)
countImports(map, deps) ==
    IF deps = <<>> THEN map
    ELSE countImports(countSet(map, Head(deps), countGet(map, Head(deps)) + 1), Tail(deps))

\* the position of a path in codeFiles, 0 for a path of no code file
fileNumber(file) == indexOf(codeFiles, file)

\* the Map as detectCycles reads it, files by their position in codeFiles
numberedGraph(map) ==
    [keys |-> [k \in DOMAIN map |-> fileNumber(map[k].file)],
     adj |-> [i \in DOMAIN codeFiles |->
                IF \E k \in DOMAIN map : map[k].file = codeFiles[i]
                THEN LET deps == map[CHOOSE k \in DOMAIN map : map[k].file = codeFiles[i]].imports
                     IN [j \in DOMAIN deps |-> fileNumber(deps[j])]
                ELSE <<>>]]

\* what readLines can give: null, or the lines of a file of at most two lines
ReadResults ==
    {[ok |-> FALSE, lines |-> <<>>], [ok |-> TRUE, lines |-> <<>>]}
        \cup {[ok |-> TRUE, lines |-> <<first>>] : first \in LineShapes}
        \cup {[ok |-> TRUE, lines |-> <<first, second>>] : first, second \in LineShapes}

BuildInit ==
    /\ IdleExcept("build")
    /\ codeFiles \in Corpora
    /\ fileIdx = 0 /\ readResult = [ok |-> FALSE, lines |-> <<>>]
    /\ importGraph = <<>> /\ inDegree = <<>> /\ outDegree = <<>>
    /\ importCycles = <<>> /\ edgeTotal = 0
    /\ bpc = "reading"

\* one round of the loop of lines 70-91
ReadFile ==
    /\ bpc = "reading"
    /\ fileIdx < Len(codeFiles)
    /\ fileIdx' = fileIdx + 1
    /\ \E result \in ReadResults :
          /\ readResult' = result
          /\ IF ~result.ok
             THEN UNCHANGED <<importGraph, inDegree, outDegree>>
             ELSE LET file == codeFiles[fileIdx + 1]
                      resolvedImports == resolveAll(extractImports(result.lines), file, codeFiles, <<>>)
                  IN /\ importGraph' = Append(importGraph, [file |-> file, imports |-> resolvedImports])
                     /\ outDegree' = countSet(outDegree, file, Len(resolvedImports))
                     /\ inDegree' = countImports(inDegree, resolvedImports)
    /\ UNCHANGED <<codeFiles, importCycles, edgeTotal, bpc>>
    /\ Frame("build")

\* lines 93-94 and 130-131, once the loop has ended
AnalyseGraph ==
    /\ bpc = "reading"
    /\ fileIdx = Len(codeFiles)
    /\ LET found == detectCycles(numberedGraph(importGraph))
       IN importCycles' = [i \in DOMAIN found |-> [k \in DOMAIN found[i] |-> codeFiles[found[i][k]]]]
    /\ edgeTotal' = SeqSum([k \in DOMAIN outDegree |-> outDegree[k].count])
    /\ bpc' = "analysed"
    /\ UNCHANGED <<codeFiles, fileIdx, readResult, importGraph, inDegree, outDegree>>
    /\ Frame("build")

BuildNext == ReadFile \/ AnalyseGraph

SpecBuild == BuildInit /\ [][BuildNext]_vars

(***************************************************************************)
(* Claims about the deduplicator                                           *)
(***************************************************************************)
\* C1: the returned list starts with exactly the tool findings, in their
\* original order, followed by a subsequence of the pattern findings in their
\* original order.
C1_ToolFirstThenPatternSubsequence ==
    \A i \in DOMAIN dedupResults :
        LET r == dedupResults[i]
            n == Len(givenTool)
        IN /\ Len(r) >= n
           /\ SubSeq(r, 1, n) = givenTool
           /\ IsSubsequence(SubSeq(r, n + 1, Len(r)), givenRegex)

\* C1 witness: a call with tool findings that kept some pattern findings and
\* dropped others.
C1_Witness ==
    /\ Len(dedupResults) >= 1
    /\ Len(givenTool) >= 1
    /\ Len(dedupResults[1]) > Len(givenTool)
    /\ Len(dedupResults[1]) < Len(givenTool) + Len(givenRegex)

\* the drop condition as the claim states it
C2_ShouldDrop(p) ==
    /\ p.file # NoFile /\ p.line # NoLine
    /\ \E i \in DOMAIN givenTool :
          /\ givenTool[i].file # NoFile /\ givenTool[i].line # NoLine
          /\ givenTool[i].file = p.file
          /\ Abs(givenTool[i].line - p.line) <= 2

C2_Keep(p) == ~C2_ShouldDrop(p)

\* C2: a pattern finding is dropped iff it has a file and a line and some tool
\* finding with a file and a line is in the same file at most 2 lines away.
C2_DroppedIffWithinRadius ==
    \A i \in DOMAIN dedupResults :
        SubSeq(dedupResults[i], Len(givenTool) + 1, Len(dedupResults[i]))
            = SelectSeq(givenRegex, C2_Keep)

\* C2 witness: one tool finding; a pattern finding 2 lines before it is dropped
\* and a pattern finding 3 lines before it is kept.
C2_Witness ==
    /\ Len(dedupResults) >= 1
    /\ Len(givenTool) = 1 /\ Len(givenRegex) = 2
    /\ givenTool[1].file = "a.js" /\ givenTool[1].line = 4
    /\ givenRegex[1].file = "a.js" /\ givenRegex[1].line = 2
    /\ givenRegex[2].file = "a.js" /\ givenRegex[2].line = 1
    /\ dedupResults[1] = <<givenTool[1], givenRegex[2]>>

EdgesOf(g) == {<<g.keys[i], t>> : i \in DOMAIN g.keys, t \in 1..Len(g.keys)}
                 \cap {e \in (1..Len(g.keys)) \X (1..Len(g.keys)) : e[2] \in Range(g.adj[e[1]])}

\* the nodes reached from n by one or more edges
RECURSIVE ReachFrom(_, _, _)
ReachFrom(g, frontier, seen) ==
    LET next == {e[2] : e \in {x \in EdgesOf(g) : x[1] \in frontier}} \ seen
    IN IF next = {} THEN seen ELSE ReachFrom(g, next, seen \cup next)

\* the files that import something
Importers(g) == {e[1] : e \in EdgesOf(g)}

\* the graph's edges form one simple directed cycle (other files are isolated)
IsSimpleCycle(g) ==
    /\ Importers(g) # {}
    /\ \A n \in Importers(g) : Len(g.adj[n]) = 1
    /\ \A n \in Importers(g) : ReachFrom(g, {n}, {}) = Importers(g)

\* C4: for a graph that is one simple directed cycle, whatever the order of the
\* graph's keys, exactly one cycle is reported, its nodes are the nodes of the
\* cycle, and without tools the analyzer returns exactly one medium finding,
\* naming every file of the cycle, with stats.circularDependencies = 1.
C4_SimpleCycleReportedOnce ==
    (gpc = "done" /\ IsSimpleCycle(graph)) =>
        /\ Len(cycles) = 1
        /\ Range(cycles[1]) = Importers(graph)
        /\ Len(importsFindings) = 1
        /\ importsFindings[1].severity = SEVERITY_MEDIUM
        /\ importsFindings[1].chain = join(cycles[1], " -> ")
        /\ stats.circularDependencies = 1

\* C4 witness: the cycle a -> b -> c -> a, analysed with the keys in the order
\* b, a, c.
C4_Witness ==
    /\ gpc = "done"
    /\ graph.keys = <<2, 1, 3>>
    /\ graph.adj = <<(<<2>>), (<<3>>), (<<1>>)>>
    /\ Len(cycles) = 1

\* C5: no two reported cycles have the same set of nodes.
C5_NoTwoCyclesWithSameNodes ==
    gpc = "done" =>
        \A i, j \in DOMAIN cycles : Range(cycles[i]) = Range(cycles[j]) => i = j

\* C5 witness: two cycles that share a node were reported.
C5_Witness ==
    /\ gpc = "done"
    /\ \E i, j \in DOMAIN cycles : i # j /\ Range(cycles[i]) \cap Range(cycles[j]) # {}

IsCycleFinding(f) == f.chain # ""

\* C6 as stated: one finding per cycle, each of them medium up to 5 cycles and
\* high above 5.
C6_Original ==
    gpc = "done" =>
        LET cf == SelectSeq(graphFindings, IsCycleFinding)
        IN /\ Len(cf) = Len(cycles)
           /\ \A i \in DOMAIN cf :
                 cf[i].severity = IF Len(cycles) > 5 THEN SEVERITY_HIGH ELSE SEVERITY_MEDIUM

\* C6 amended: one medium finding per cycle, whatever the number of cycles;
\* above 5 cycles one more finding, of severity high and without a file, is
\* added, and none up to 5.
C6_MediumPerCyclePlusHighSummary ==
    gpc = "done" =>
        LET cf == SelectSeq(graphFindings, IsCycleFinding)
            high == SelectSeq(graphFindings, LAMBDA f : f.severity = SEVERITY_HIGH)
        IN /\ Len(cf) = Len(cycles)
           /\ \A i \in DOMAIN cf :
                 /\ cf[i].severity = SEVERITY_MEDIUM
                 /\ cf[i] = graphFindings[i]
                 /\ cf[i].chain = join(cycles[i], " -> ")
           /\ Len(high) = IF Len(cycles) > 5 THEN 1 ELSE 0
           /\ \A i \in DOMAIN high : high[i].file = NoFile /\ ~IsCycleFinding(high[i])
           /\ Len(graphFindings) = Len(cf) + Len(high)

\* C6 witness: exactly 6 cycles were reported.
C6_Witness == gpc = "done" /\ Len(cycles) = 6

\* the boundary below: exactly 5 cycles
C6_WitnessFive == gpc = "done" /\ Len(cycles) = 5

(***************************************************************************)
(* Claims about the tool runner                                            *)
(***************************************************************************)
\* the status the claim assigns to a run, from the timeout flag, stdout and
\* the parser id alone
C7_StatusByClaim(tool, timedOut, stdout) ==
    IF timedOut THEN {"timeout"}
    ELSE IF stdout = "" \/ stdout = " \n" THEN {"no-output", "empty"}
    ELSE IF tool.parserId \notin PARSERS THEN {"no-parser"}
    ELSE {"success"}

\* C7: runTool never throws; the status it returns is timeout for a run that
\* timed out, otherwise no-output or empty for empty or white-space stdout,
\* otherwise no-parser for an unregistered parser id, otherwise success,
\* whatever the exit code; every status but success comes with no findings.
C7_StatusWithoutExitCodeNeverThrows ==
    [][(rpc = "awaiting" /\ execPromise.state = "resolved") =>
          /\ rpc' = "loop"
          /\ runReturns'[runIdx].meta.status \in
                C7_StatusByClaim(runQueue[runIdx], execPromise.value.timedOut,
                                 execPromise.value.stdout)
          /\ runReturns'[runIdx].meta.status # "success" => runReturns'[runIdx].findings = <<>>]_vars

AvailableIds == [k \in DOMAIN available |-> available[k].id]

\* the detect command of registry position i was not killed at its timeout
\* and wrote something to stdout or to stderr
C9_Qualifies(i) ==
    /\ probes[i].state # "killed"
    /\ probes[i].stdout # "" \/ probes[i].stderr # ""

\* C9: a registry tool is in the availability map iff its detect command did
\* not time out and wrote to stdout or stderr, whatever its exit code.
C9_AvailableIffOutputWithoutTimeout ==
    dpc = "collected" =>
        \A i \in 1..MaxProbes :
            (TOOL_REGISTRY[i].id \in Range(AvailableIds)) <=> C9_Qualifies(i)

\* one probe exits non-zero with nothing but stderr and its tool is available,
\* the other wrote its version and was killed at the timeout and its tool is not
C9_Witness ==
    /\ dpc = "collected"
    /\ probes[1].state = "exited" /\ probes[1].code = 1
    /\ probes[1].stdout = "" /\ probes[1].stderr # ""
    /\ probes[2].state = "killed" /\ probes[2].stdout = VersionLine
    /\ AvailableIds = <<TOOL_REGISTRY[1].id>>

\* C10: discovery ends once every probe has settled, and its map holds, in
\* registry order, exactly the tools whose own probe qualifies, whatever the
\* order in which the probes completed.
C10_MapIndependentOfCompletionOrder ==
    dpc = "collected" =>
        /\ Range(completionOrder) = 1..MaxProbes
        /\ AvailableIds =
              SelectSeq([i \in 1..MaxProbes |-> TOOL_REGISTRY[i].id],
                        LAMBDA id : \E i \in 1..MaxProbes :
                                        TOOL_REGISTRY[i].id = id /\ C9_Qualifies(i))

\* the probes completed in the reverse of registry order, one of them with
\* a non-zero exit code, and the map holds their tools in registry order
C10_Witness ==
    /\ dpc = "collected"
    /\ \A k \in 1..MaxProbes : completionOrder[k] = MaxProbes + 1 - k
    /\ probes[1].state = "exited" /\ probes[1].code = 1
    /\ AvailableIds = [i \in 1..MaxProbes |-> TOOL_REGISTRY[i].id]

\* the leftmost numeric dotted version in a sequence of characters: digits, a
\* dot, a digit, and every digit and dot that follows; "" if there is none
C11_FirstVersion(cs) ==
    LET versions ==
            {se \in (1..Len(cs)) \X (1..Len(cs)) :
                /\ \E k \in se[1]..(se[2] - 2) :
                      /\ \A j \in se[1]..k : isDigit(cs[j])
                      /\ cs[k + 1] = "." /\ isDigit(cs[k + 2])
                /\ \A j \in se[1]..se[2] : isDigitOrDot(cs[j])
                /\ se[2] = Len(cs) \/ ~isDigitOrDot(cs[se[2] + 1])}
    IN IF versions = {} THEN ""
       ELSE LET first == CHOOSE se \in versions : \A other \in versions : se[1] <= other[1]
            IN concatChars(SubSeq(cs, first[1], first[2]))

\* C11 as stated: the version of an available tool is the first version in
\* stdout followed by stderr, and "unknown" only if neither holds one.
C11_Original ==
    dpc = "collected" =>
        \A k \in DOMAIN available : \A i \in 1..MaxProbes :
            TOOL_REGISTRY[i].id = available[k].id =>
                LET v == C11_FirstVersion(chars(probes[i].stdout) \o chars(probes[i].stderr))
                IN available[k].version = IF v # "" THEN v ELSE "unknown"

\* C11 amended: the version of an available tool is the first version in its
\* stdout if its stdout is not empty, and in its stderr otherwise; it is
\* "unknown" iff that one stream holds no version.
C11_FirstVersionOfStdoutElseStderr ==
    dpc = "collected" =>
        \A k \in DOMAIN available : \A i \in 1..MaxProbes :
            TOOL_REGISTRY[i].id = available[k].id =>
                LET stream == IF probes[i].stdout # "" THEN probes[i].stdout ELSE probes[i].stderr
                    v == C11_FirstVersion(chars(stream))
                IN available[k].version = IF v # "" THEN v ELSE "unknown"

\* one tool whose stdout holds two versions and whose stderr holds another,
\* recorded with the first of stdout, and one with white space on stdout and
\* a version on stderr, recorded as unknown
C11_Witness ==
    /\ dpc = "collected" /\ Len(available) = 2
    /\ probes[1].stdout = VersionLine /\ probes[1].stderr = "usage: java 17.0"
    /\ available[1].version = "1.20.3"
    /\ probes[2].stdout = " \n" /\ probes[2].stderr = "usage: java 17.0"
    /\ available[2].version = "unknown"

(***************************************************************************)
(* Claims about tool selection                                             *)
(***************************************************************************)
\* the position of a tool id in the registry
RegistryIndex(id) == CHOOSE i \in DOMAIN TOOL_REGISTRY : TOOL_REGISTRY[i].id = id

\* the tool serves the category and is unrestricted or restricted to a set
\* that holds the package manager
C12_Eligible(tool) ==
    /\ \E j \in DOMAIN tool.categories : tool.categories[j] = categoryArg
    /\ tool.ecosystems = {} \/ packageManagerArg \in tool.ecosystems

\* C12: getToolsForCategory returns exactly the available tools that serve the
\* category and are unrestricted or restricted to the package manager, never a
\* restricted one for a null package manager, each once and in registry order.
C12_ExactlyEligibleInRegistryOrder ==
    spc = "returned" =>
        /\ \A k \in DOMAIN matching :
              /\ \E a \in DOMAIN availableArg : availableArg[a] = matching[k]
              /\ C12_Eligible(matching[k].tool)
              /\ packageManagerArg = NoPackageManager => matching[k].tool.ecosystems = {}
        /\ \A a \in DOMAIN availableArg :
              C12_Eligible(availableArg[a].tool) =>
                  \E k \in DOMAIN matching : matching[k] = availableArg[a]
        /\ \A k, l \in DOMAIN matching :
              k < l => RegistryIndex(matching[k].id) < RegistryIndex(matching[l].id)

\* dependencies with no package manager: of npm-audit, trivy and osv-scanner the
\* two unrestricted ones are returned
C12_Witness ==
    /\ spc = "returned" /\ categoryArg = "dependencies" /\ packageManagerArg = NoPackageManager
    /\ [k \in DOMAIN availableArg |-> availableArg[k].id] = <<"npm-audit", "trivy", "osv-scanner">>
    /\ [k \in DOMAIN matching |-> matching[k].id] = <<"trivy", "osv-scanner">>

(***************************************************************************)
(* Claims about hub files                                                  *)
(***************************************************************************)
\* the number of files of the graph that import the file
C13_InDegree(file) ==
    Cardinality({i \in DOMAIN graph.keys : file \in Range(graph.adj[i])})

\* the files graphAnalysis flagged as hubs
HubFiles == {stats.hubFiles[k].file : k \in DOMAIN stats.hubFiles}

\* C13: a file is flagged as a hub iff its in-degree is at least 10 and at
\* least 15% of the number of code files.
C13_HubIffInDegreeAtThreshold ==
    gpc = "done" =>
        \A file \in 1..codeFileCount :
            (file \in HubFiles) <=>
                (C13_InDegree(file) >= 10 /\ 100 * C13_InDegree(file) >= 15 * codeFileCount)

\* of 100 files, one imported by exactly 15 others is a hub and one imported by
\* 14 is not
C13_Witness ==
    /\ gpc = "done" /\ codeFileCount = 100
    /\ C13_InDegree(1) = 15 /\ 1 \in HubFiles
    /\ C13_InDegree(2) = 14 /\ 2 \notin HubFiles

\* of 10 files, one imported by all 9 others and one imported by 2 are no hubs
C13_WitnessSmall ==
    /\ gpc = "done" /\ codeFileCount = 10
    /\ C13_InDegree(1) = 9 /\ C13_InDegree(2) = 2 /\ HubFiles = {}

\* the title graphAnalysis gives the hub finding of the file
C14_HubTitle(file) ==
    "Hub file: " \o NodeName[file] \o " (imported by "
        \o ToString(C13_InDegree(file)) \o " files)"

\* the files of the graph that others import
C14_Imported == {file \in 1..codeFileCount : C13_InDegree(file) > 0}

\* the hub findings among the findings of graphAnalysis, in order
C14_HubFindings ==
    SelectSeq(graphFindings,
              LAMBDA x : \E file \in C14_Imported :
                             x.file = NodeName[file] /\ x.title = C14_HubTitle(file))

\* the file a hub finding is about
C14_FileOf(x) == CHOOSE file \in C14_Imported : x.file = NodeName[file]

\* C14: the hub findings have severity low, are at most 5, are about hubs, come
\* in non-increasing order of in-degree, and no hub without a finding has a
\* strictly larger in-degree than a hub with one.
C14_TopFiveHubsLowDescending ==
    gpc = "done" =>
        LET hf == C14_HubFindings
            reported == {C14_FileOf(hf[k]) : k \in DOMAIN hf}
        IN /\ \A k \in DOMAIN hf : hf[k].severity = SEVERITY_LOW
           /\ Len(hf) <= 5
           /\ Cardinality(reported) = Len(hf)
           /\ reported \subseteq HubFiles
           /\ Len(hf) = (IF Cardinality(HubFiles) < 5 THEN Cardinality(HubFiles) ELSE 5)
           /\ \A k \in 1..(Len(hf) - 1) :
                  C13_InDegree(C14_FileOf(hf[k])) >= C13_InDegree(C14_FileOf(hf[k + 1]))
           /\ \A h \in HubFiles \ reported : \A r \in reported :
                  C13_InDegree(h) <= C13_InDegree(r)

\* six hubs of which the inDegree map lists a smaller one first: five findings,
\* the first for a hub with more importers than the hub left out
C14_Witness ==
    /\ gpc = "done"
    /\ Cardinality(HubFiles) = 6 /\ Len(C14_HubFindings) = 5
    /\ \E h \in HubFiles :
           /\ \A k \in DOMAIN C14_HubFindings : C14_FileOf(C14_HubFindings[k]) # h
           /\ h = 2
           /\ C13_InDegree(h) < C13_InDegree(C14_FileOf(C14_HubFindings[1]))

(***************************************************************************)
(* Claims about files that fail to read                                    *)
(***************************************************************************)
\* the code files whose read failed: they are no key of the graph
C15_Unreadable == (1..codeFileCount) \ Range(graph.keys)

\* C15: a code file that fails to read is no key of the graph, no edge of a
\* readable file points to it, it has no in-degree, and no cycle finding and no
\* hub finding is about it.
C15_UnreadableFileOutsideGraph ==
    gpc = "done" =>
        \A file \in C15_Unreadable :
            /\ \A i \in DOMAIN graph.keys : file \notin Range(graph.adj[graph.keys[i]])
            /\ file \notin Range(inDegreeKeys(graph))
            /\ \A k \in DOMAIN cycles : file \notin Range(cycles[k])
            /\ \A k \in DOMAIN graphFindings :
                  graphFindings[k].file \notin {NodeName[f] : f \in {file} \cap DOMAIN NodeName}

\* what does hold: the file is no key, has no outgoing edge and is in no cycle
C15_UnreadableFileNoKeyNoCycle ==
    gpc = "done" =>
        \A file \in C15_Unreadable :
            /\ graphGet(graph, file) = <<>>
            /\ \A k \in DOMAIN cycles : file \notin Range(cycles[k])

(***************************************************************************)
(* Claims about the parsers                                                *)
(***************************************************************************)
\* C16: no call of a registered parser throws, and on output that is no JSON
\* (or holds no block of a text report) the parser returns the empty array.
C16_ParserReturnsArrayNeverThrows ==
    /\ ppc # "threw"
    /\ (ppc = "returned" /\ rawArg.shape = "malformed") => parserFindings = <<>>

\* what does hold: the parsers with a try never throw and return [] on output
\* that is no JSON
C16_JsonParsersNeverThrow ==
    parserIdArg \notin TextParsers =>
        /\ ppc # "threw"
        /\ (ppc = "returned" /\ rawArg.shape = "malformed") => parserFindings = <<>>

\* the call is the one runTool makes for a tool of the registry: the parser of
\* the tool, the tool's id, and an analyzer the tool serves
C17_RunToolCall ==
    \E i \in DOMAIN TOOL_REGISTRY :
        /\ TOOL_REGISTRY[i].id = toolIdArg
        /\ TOOL_REGISTRY[i].parserId = parserIdArg
        /\ analyzerArg \in Range(TOOL_REGISTRY[i].categories)

\* C17: every finding runTool gets from the parser of a registry tool has
\* source 'tool', the id of that tool as toolId, and the calling category as
\* analyzer.
C17_FindingsCarrySourceToolIdAnalyzer ==
    (ppc = "returned" /\ C17_RunToolCall) =>
        \A k \in DOMAIN parserFindings :
            /\ parserFindings[k].source = "tool"
            /\ parserFindings[k].toolId = toolIdArg
            /\ parserFindings[k].analyzer = analyzerArg

\* pnpm audit run for the dependencies category returned a finding
C17_Witness ==
    /\ ppc = "returned" /\ C17_RunToolCall
    /\ toolIdArg = "pnpm-audit" /\ analyzerArg = "dependencies"
    /\ Len(parserFindings) = 1

\* the parsers of the vulnerability scanners
C18_ScannerParsers ==
    {"npm-audit-json", "pnpm-audit-json", "yarn-audit-json", "trivy-json", "osv-scanner-json",
     "cargo-audit-json", "mix-audit-text", "bundler-audit-text"}

\* the severity the claim gives a native severity word, whatever its case
C18_Mapped(word) ==
    CASE toLowerCase(word) = "critical" -> "critical"
      [] toLowerCase(word) = "high" -> "high"
      [] toLowerCase(word) \in {"moderate", "medium"} -> "medium"
      [] toLowerCase(word) = "low" -> "low"
      [] OTHER -> "medium"

\* C18: a vulnerability-scanner parser gives the entry of a report the severity
\* its native word maps to without regard to case, and medium when the word is
\* unrecognized or missing.
C18_ScannerSeverityCaseInsensitive ==
    (ppc # "called" /\ parserIdArg \in C18_ScannerParsers /\ rawArg.shape = "report") =>
        /\ ppc = "returned"
        /\ Len(parserFindings) = 1
        /\ parserFindings[1].severity = C18_Mapped(rawArg.word)

\* what does hold for every scanner parser: the four lower-case words, and
\* medium for a missing or unknown word that is no inherited name and not a
\* further key of the parser's own map
C18_LowerCaseWordsMapped ==
    (ppc # "called" /\ parserIdArg \in C18_ScannerParsers /\ rawArg.shape = "report"
        /\ rawArg.word \in {"critical", "high", "medium", "low", "", "bogus"}) =>
        /\ ppc = "returned"
        /\ Len(parserFindings) = 1
        /\ parserFindings[1].severity = C18_Mapped(rawArg.word)

(***************************************************************************)
(* Claims about the analyzers                                              *)
(***************************************************************************)
\* C19: no tool run keeps an analyzer from returning; every tool of the category
\* has run and is recorded in toolsMeta, failed or not; when no run produced a
\* finding the result is the pattern findings, unchanged and in their order; and
\* the analyzers of the categories that follow are called.
C19_FailedToolsLeavePatternFindings ==
    /\ apc # "threw"
    /\ apc \in {"pattern", "returned"} =>
          /\ Len(catToolsMeta) = Len(catTools)
          /\ \A i \in DOMAIN catTools : catToolsMeta[i].toolId = catTools[i].id
    /\ apc = "returned" =>
          /\ catResult.toolsMeta = catToolsMeta
          /\ catToolFindings = <<>> => catResult.findings = catRegexFindings
    /\ apc = "finished" => catIdx = Len(AnalyzerOrder)

\* the security analyzer returned its two pattern findings after Semgrep timed
\* out and ESLint wrote nothing
C19_Witness ==
    /\ apc = "returned" /\ AnalyzerOrder[catIdx] = "security"
    /\ Len(catToolsMeta) = 2
    /\ catToolsMeta[1].toolId = "semgrep" /\ catToolsMeta[1].status = "timeout"
    /\ catToolsMeta[2].toolId = "eslint" /\ catToolsMeta[2].status = "no-output"
    /\ Len(catRegexFindings) = 2 /\ catResult.findings = catRegexFindings

\* the dependencies analyzer is called after the tool of the secrets analyzer
\* failed
C19_WitnessNextCategory ==
    /\ apc = "start" /\ AnalyzerOrder[catIdx] = "dependencies"
    /\ \E k \in DOMAIN optsAvailable : optsAvailable[k].id = "gitleaks"

(***************************************************************************)
(* Claims about the orchestrator                                           *)
(***************************************************************************)
\* the phase that follows each phase of a run that found files
C20_Successor(phase) ==
    CASE phase = "FilesCollected" -> {"EcosystemDetected"}
      [] phase = "EcosystemDetected" -> {"ToolsDiscovered"}
      [] phase = "ToolsDiscovered" -> {"Analyzing"}
      [] phase = "Analyzing" -> {"AnalyzerReturned"}
      [] phase = "AnalyzerReturned" -> {"Analyzing", "Aggregated"}
      [] phase = "Aggregated" -> {"Reported"}
      [] phase = "Reported" -> {"Done"}
      [] OTHER -> {}

C20_WitnessToolsFailed ==
    /\ mpc = "Done" /\ Len(allToolsMeta) = 2
    /\ \A k \in DOMAIN allToolsMeta : allToolsMeta[k].status = "timeout"

(***************************************************************************)
(* Claims about cycle detection                                            *)
(***************************************************************************)
\* some file reaches itself along one or more import edges
HasDirectedCycle(g) == \E n \in Range(g.keys) : n \in ReachFrom(g, {n}, {})

\* C27: the graph analyzer reports at least one cycle if and only if the import
\* graph has a directed cycle (a file importing itself included), whatever the
\* graph and the order of its keys.
C27_CycleReportedIffGraphCyclic ==
    gpc = "done" => ((Len(cycles) >= 1) <=> HasDirectedCycle(graph))

\* C27 witness: the only edge is a file importing itself, and it is reported.
C27_Witness ==
    /\ gpc = "done"
    /\ EdgesOf(graph) = {<<2, 2>>}
    /\ cycles = <<(<<2, 2>>)>>

\* the other side: a graph with as many edges as the bound allows and no cycle
C27_WitnessAcyclic ==
    /\ gpc = "done"
    /\ Cardinality(EdgesOf(graph)) = MaxEdges
    /\ ~HasDirectedCycle(graph)
    /\ cycles = <<>>

\* C28: every reported cycle is a closed chain of the graph: it ends with the
\* node it starts with, each consecutive pair of its nodes is an import edge, and
\* no node but the closing one occurs twice.
C28_CyclesAreClosedChains ==
    gpc = "done" =>
        \A i \in DOMAIN cycles :
            LET c == cycles[i]
            IN /\ Len(c) >= 2
               /\ c[1] = c[Len(c)]
               /\ \A k \in 1..(Len(c) - 1) : <<c[k], c[k + 1]>> \in EdgesOf(graph)
               /\ \A k, m \in 1..(Len(c) - 1) : c[k] = c[m] => k = m

\* C28 witness: a cycle was found while files that are not part of it were on
\* the stack below it.
C28_Witness ==
    /\ gpc = "done"
    /\ \E i \in DOMAIN cycles :
          /\ Len(cycles[i]) = 3
          /\ cycles[i][1] # graph.keys[1]
          /\ graph.keys[1] \in Importers(graph)
          /\ cycles[i][1] \in ReachFrom(graph, {graph.keys[1]}, {})

\* the title parseMadgeJson gives a cycle; Madge lists the files of a cycle
\* once each, without the closing node
madgeTitle(files) == "Circular import detected (" \o ToString(Len(files)) \o " files)"

\* the files of a reported cycle once each, in chain order
cycleFiles(cycle) == SubSeq(cycle, 1, Len(cycle) - 1)

\* C29: the number of files in a cycle finding's title is the number of
\* distinct files of the cycle, as in the Madge finding for the same cycle.
C29_TitleCountsDistinctFiles ==
    gpc = "done" =>
        \A i \in DOMAIN cycles :
            /\ graphFindings[i].title =
                 "Circular import detected (" \o ToString(Cardinality(Range(cycles[i]))) \o " files)"
            /\ graphFindings[i].title = madgeTitle(cycleFiles(cycles[i]))

\* what the code does instead: the title counts the closing node too
C29_TitleCountsClosingNode ==
    gpc = "done" =>
        \A i \in DOMAIN cycles :
            graphFindings[i].title =
                "Circular import detected (" \o ToString(Cardinality(Range(cycles[i])) + 1) \o " files)"

C23_WitnessAccepted ==
    /\ findingOutcome = "returned" /\ severityArg = "info"
    /\ Len(allFindings) = MaxReportFindings

C24_Rank(f) ==
    CASE f.severity = "critical" -> 0
      [] f.severity = "high" -> 1
      [] f.severity = "medium" -> 2
      [] f.severity = "low" -> 3
      [] f.severity = "info" -> 4

\* the positions of s's elements in t, when the elements are distinct
C24_PositionIn(t, x) == CHOOSE i \in DOMAIN t : t[i] = x

\* C24: sortFindings returns a permutation of its input in the order critical,
\* high, medium, low, info, findings of equal severity keep their input order,
\* the input list is left as it was, and the findings of every section of the
\* report are in non-increasing severity.
C24_ReportSortedBySeverityStable ==
    kpc = "reported" =>
        /\ Len(sortedFindings) = Len(allFindings)
        /\ Range(sortedFindings) = Range(allFindings)
        /\ \A i, j \in DOMAIN sortedFindings :
              i < j =>
                 /\ C24_Rank(sortedFindings[i]) <= C24_Rank(sortedFindings[j])
                 /\ C24_Rank(sortedFindings[i]) = C24_Rank(sortedFindings[j]) =>
                       C24_PositionIn(allFindings, sortedFindings[i])
                          < C24_PositionIn(allFindings, sortedFindings[j])
        /\ \A i \in DOMAIN allFindings : allFindings[i].title = "finding " \o ToString(i)
        /\ \A category \in ReportAnalyzers :
              LET section == sectionFindings(groupedFindings, category)
              IN /\ section = SelectSeq(sortedFindings, LAMBDA f : f.analyzer = category)
                 /\ \A i, j \in DOMAIN section :
                       i < j => C24_Rank(section[i]) <= C24_Rank(section[j])

\* C24 witness: a report whose findings came in rising severity, two of them
\* of equal severity in one section.
C24_Witness ==
    /\ kpc = "reported"
    /\ Len(allFindings) = 3
    /\ allFindings[1].severity = "low"
    /\ allFindings[2].severity = "high" /\ allFindings[3].severity = "high"
    /\ allFindings[2].analyzer = allFindings[3].analyzer
    /\ sortedFindings = <<allFindings[2], allFindings[3], allFindings[1]>>

(***************************************************************************)
(* Claims about the registry's ecosystem restrictions                      *)
(***************************************************************************)
\* the detection results under which an installed tool is returned
C26_SelectingManagers(entry, category) ==
    {pm \in DetectedPackageManagers :
        \E k \in DOMAIN getToolsForCategory(availableArg, category, pm) :
            getToolsForCategory(availableArg, category, pm)[k] = entry}

\* C26: every installed tool with an ecosystem restriction is returned for each
\* of its categories under at least one package manager that ecosystem
\* detection can report.
C26_RestrictedToolSelectable ==
    spc = "returned" =>
        \A i \in DOMAIN availableArg :
            availableArg[i].tool.ecosystems # {} =>
                \A category \in Range(availableArg[i].tool.categories) :
                    C26_SelectingManagers(availableArg[i], category) # {}

\* what holds instead: the tools restricted to package-manager names are
\* selectable, those restricted to language names never are
C26_SelectableIffRestrictedToManager ==
    spc = "returned" =>
        \A i \in DOMAIN availableArg :
            availableArg[i].tool.ecosystems # {} =>
                \A category \in Range(availableArg[i].tool.categories) :
                    (C26_SelectingManagers(availableArg[i], category) # {})
                        <=> availableArg[i].id \in {"npm-audit", "pnpm-audit", "yarn-audit", "madge"}

(***************************************************************************)
(* Claims about graph construction                                         *)
(***************************************************************************)
\* the file the loop handled last, and its entry in the graph when it was read
LastFile == codeFiles[fileIdx]

LastImports == importGraph[Len(importGraph)].imports

LastFileRead == bpc # "idle" /\ fileIdx > 0 /\ readResult.ok

\* the specifiers extracted from the file handled last
LastSpecifiers == Range(extractImports(readResult.lines))

\* the code files a specifier of the file handled last can stand for: the joined
\* path itself, with a known extension, or as a directory with an index file
C21_Matches(specifier) ==
    {f \in Range(codeFiles) :
        LET joined == pathJoin(dirname(LastFile), specifier)
        IN \/ f = joined
           \/ \E k \in DOMAIN ResolveExtensions :
                 \/ f = withExtension(joined, ResolveExtensions[k])
                 \/ f = indexFile(joined, ResolveExtensions[k])}

\* C21: a specifier that matches no code file adds no edge and no in-degree,
\* and the path it names is in no cycle and not among the files hubs are taken
\* from; every edge target is the relative path of a code file.
C21_UnresolvedSpecifierLeavesNoTrace ==
    /\ \A k \in DOMAIN importGraph : Range(importGraph[k].imports) \subseteq Range(codeFiles)
    /\ \A k \in DOMAIN inDegree : inDegree[k].file \in Range(codeFiles)
    /\ \A i \in DOMAIN importCycles : Range(importCycles[i]) \subseteq Range(codeFiles)
    /\ LastFileRead =>
          /\ Range(LastImports) \subseteq UNION {C21_Matches(sp) : sp \in LastSpecifiers}
          /\ (\A sp \in LastSpecifiers : C21_Matches(sp) = {}) => LastImports = <<>>

\* C21 witness: a file with one resolvable and one unresolvable relative import
\* was read, and the analysis has run.
C21_Witness ==
    /\ bpc = "analysed" /\ LastFileRead
    /\ LastFile = <<"b.js">>
    /\ extractImports(readResult.lines) = <<(<<".", "missing">>), (<<".", "a">>)>>
    /\ LastImports = <<(<<"a.js">>)>>

\* a file all of whose imports are unresolvable
C21_WitnessNoEdge ==
    /\ bpc = "analysed" /\ LastFileRead
    /\ LastSpecifiers = {<<".", "missing">>}
    /\ LastImports = <<>>

\* C22: every edge of the graph comes from an extracted specifier that begins
\* with '.', whatever the file and its lines.
C22_EdgesFromDotSpecifiersOnly ==
    LastFileRead =>
        \A t \in Range(LastImports) :
            \E sp \in LastSpecifiers :
                startsWithDot(sp) /\ resolveImport(sp, LastFile, codeFiles) = t

\* what holds instead: an edge comes from a specifier that begins with '.' or
\* from the dotted name after the word alias
C22_EdgesFromDotOrAliasSpecifiers ==
    LastFileRead =>
        \A t \in Range(LastImports) :
            \E k \in DOMAIN readResult.lines :
                LET sp == lineImports(readResult.lines[k])
                IN /\ sp # <<>>
                   /\ resolveImport(sp[1], LastFile, codeFiles) = t
                   /\ startsWithDot(sp[1]) \/ sp[1] = readResult.lines[k].alias

\* C25: pkg/a.py with the line `from .b import x` gets the edge to pkg/b.py
\* when pkg/b.py is a code file.
C25_PythonRelativeImportMakesEdge ==
    (/\ LastFileRead
     /\ LastFile = <<"pkg", "a.py">>
     /\ <<"pkg", "b.py">> \in Range(codeFiles)
     /\ <<".b">> \in LastSpecifiers)
        => <<"pkg", "b.py">> \in Range(LastImports)

\* what holds instead: the captures of the Python pattern resolve to no file
\* of these corpora, so Python files importing each other give no cycle
C25_PythonRelativeImportsUnresolved ==
    LastFileRead =>
        \A k \in DOMAIN readResult.lines :
            readResult.lines[k].py # NoPath =>
                resolveImport(readResult.lines[k].py, LastFile, codeFiles) = NoPath

\* the number of graph entries whose Set holds the file
C30_Importers(file) == Cardinality({k \in DOMAIN importGraph : file \in Range(importGraph[k].imports)})

\* C30: the degree maps agree with the adjacency map: in-degree is the number
\* of nodes whose Set holds the file, out-degree the size of the node's Set, a
\* file imported several times by one file counts once, and the in-degrees
\* and the out-degrees both add up to stats.totalImportEdges.
C30_DegreesAgreeWithAdjacency ==
    /\ \A f \in Range(codeFiles) : countGet(inDegree, f) = C30_Importers(f)
    /\ \A k, m \in DOMAIN inDegree : inDegree[k].file = inDegree[m].file => k = m
    /\ \A k \in DOMAIN inDegree : inDegree[k].count >= 1
    /\ Len(outDegree) = Len(importGraph)
    /\ \A k \in DOMAIN importGraph :
          /\ outDegree[k].file = importGraph[k].file
          /\ outDegree[k].count = Cardinality(Range(importGraph[k].imports))
          /\ IsInjective(importGraph[k].imports)
    /\ SeqSum([k \in DOMAIN inDegree |-> inDegree[k].count])
          = SeqSum([k \in DOMAIN outDegree |-> outDegree[k].count])
    /\ bpc = "analysed" => edgeTotal = SeqSum([k \in DOMAIN inDegree |-> inDegree[k].count])

\* C30 witness: b.js imports a.js on two lines, a.js imports b.js, and the
\* analysis counted two edges.
C30_Witness ==
    /\ bpc = "analysed" /\ LastFileRead
    /\ codeFiles = <<(<<"a.js">>), (<<"b.js">>)>>
    /\ extractImports(readResult.lines) = <<(<<".", "a">>), (<<".", "a">>)>>
    /\ countGet(inDegree, <<"a.js">>) = 1 /\ countGet(inDegree, <<"b.js">>) = 1
    /\ edgeTotal = 2
    /\ Len(importCycles) = 1

====
